------------------------------ MODULE TxWatch -------------------------------
(***************************************************************************)
(* What pkg/evmclient's transaction monitor promises to the client, and    *)
(* what the client is built on: a waiter registered with watchTx is told   *)
(* at most once, and what it is told is true of the chain;                 *)
(* lastConfirmedNonce only grows and never runs ahead of the account's     *)
(* nonce.  How the monitor finds out is TxMonitor's affair.                *)
(*                                                                         *)
(* A waiter is one channel made by watchTx (capacity 1).  It gets one      *)
(* Result and is closed, so it is modelled by that result.                 *)
(***************************************************************************)
EXTENDS Chain

CONSTANT Waiters    \* channels handed out by watchTx

VARIABLES
  watched,             \* the transaction a waiter's channel is for
  res,                 \* the Result sent on a waiter's channel
  lastConfirmedNonce,
  closed               \* Close has been called

tellVars == <<watched, res, lastConfirmedNonce, closed>>
watchSpecVars == <<chainVars, tellVars>>

Results == {"receipt", "cancelled", "closed"}

WatchTypeOK ==
  /\ ChainTypeOK
  /\ watched \in [Waiters -> Txs \cup {None}]
  /\ res \in [Waiters -> Results \cup {"none"}]
  /\ lastConfirmedNonce \in 0..MaxNonce
  /\ closed \in BOOLEAN

WatchInit ==
  /\ ChainInit
  /\ watched = [w \in Waiters |-> None]
  /\ res = [w \in Waiters |-> "none"]
  /\ lastConfirmedNonce = 0
  /\ closed = FALSE

Untold(t) == {w \in Waiters : watched[w] = t /\ res[w] = "none"}

\* watchTx: a new channel for a transaction that was sent.
Register(w, t) ==
  /\ watched[w] = None
  /\ Known(t)
  /\ watched' = [watched EXCEPT ![w] = t]
  /\ UNCHANGED <<chainVars, res, lastConfirmedNonce, closed>>

\* The watch loop stores the nonce it read.
Confirm ==
  /\ lastConfirmedNonce' \in lastConfirmedNonce..chainNonce
  /\ UNCHANGED <<chainVars, watched, res, closed>>

\* Waiters of t are told what became of t, once its nonce is used up.
Tell(t, W) ==
  /\ Settled(t)
  /\ W \subseteq Untold(t)
  /\ res' = [w \in Waiters |->
               IF w \in W THEN IF Mined(t) THEN "receipt" ELSE "cancelled"
                          ELSE res[w]]
  /\ UNCHANGED <<chainVars, watched, lastConfirmedNonce, closed>>

\* Waiters are told that the monitor is closed.
TellClosed(W) ==
  /\ closed
  /\ \A w \in W : watched[w] # None /\ res[w] = "none"
  /\ res' = [w \in Waiters |-> IF w \in W THEN "closed" ELSE res[w]]
  /\ UNCHANGED <<chainVars, watched, lastConfirmedNonce, closed>>

CloseWatch ==
  /\ ~closed
  /\ closed' = TRUE
  /\ UNCHANGED <<chainVars, watched, res, lastConfirmedNonce>>

WatchStep ==
  \/ Confirm
  \/ \E t \in Txs, W \in SUBSET Waiters : Tell(t, W)
  \/ \E W \in SUBSET Waiters : TellClosed(W)
  \/ CloseWatch

\* The chain moves by itself.
ChainMoves == (Block \/ \E t \in Txs : DropTx(t)) /\ UNCHANGED tellVars

WatchNext ==
  \/ WatchStep
  \/ ChainMoves
  \/ \E w \in Waiters, t \in Txs : Register(w, t)
  \/ \E t \in Txs, n \in Nonces : Submit(t, n) /\ UNCHANGED tellVars

\* The monitor as its clients see it.
WatchSpec == WatchInit /\ [][WatchNext]_watchSpecVars
=============================================================================
