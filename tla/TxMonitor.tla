----------------------------- MODULE TxMonitor ------------------------------
(***************************************************************************)
(* pkg/evmclient/txmonitor.go: the monitor that tells waiters what became  *)
(* of a transaction.  Three kinds of goroutine share it: watchLoop reads   *)
(* the head and the account's nonce, checkLoop asks for the receipts of    *)
(* every watched transaction whose nonce is used up, and callers of        *)
(* watchTx register a channel.  The loops meet in an unbuffered channel    *)
(* that watchLoop never blocks on, so an update may be lost.               *)
(*                                                                         *)
(* A transaction has one nonce, so waitMap[nonce][txn] is the set of       *)
(* waiters in the map that watch txn.  Block numbers are abstracted to the *)
(* one comparison the loop makes: fresh says that there is a block later   *)
(* than lastBlock.  The module implements TxWatch with the same names for  *)
(* what both have.                                                         *)
(***************************************************************************)
EXTENDS TxWatch, FiniteSets

CONSTANT batchSize   \* receipts asked for in one call

ASSUME BatchAssumption == batchSize \in Nat \ {0}

VARIABLES
  fresh,      \* there is a block later than lastBlock
  waitMap,    \* waiters whose channel is in t.waitMap
  watchPc,    \* where watchLoop is
  newTx,      \* its local newTx
  head,       \* the account's nonce at the block it read
  headFresh,  \* that block is later than lastBlock
  checkPc,    \* where checkLoop is
  checkNonce, \* the nonce of the update it works on
  todo,       \* transactions of this check that are not asked about yet
  replies,    \* answers of the current batch still to be processed
  panicked    \* a send on a closed channel ended the process

watchVars == <<watchPc, newTx, head, headFresh>>
checkVars == <<checkPc, checkNonce, todo, replies>>
monitorVars == <<watchSpecVars, fresh, waitMap, watchVars, checkVars, panicked>>

Replies == {"receipt", "notfound", "error"}

\* The types of the chain's and the monitor's state; what is in the map watches
\* a transaction.
MonitorTypeOK ==
  /\ WatchTypeOK
  /\ fresh \in BOOLEAN
  /\ waitMap \in SUBSET {w \in Waiters : watched[w] # None}
  /\ watchPc \in {"select", "head", "nonce", "update", "dead"}
  /\ newTx \in BOOLEAN
  /\ head \in 0..MaxNonce
  /\ headFresh \in BOOLEAN
  /\ checkPc \in {"select", "collect", "batch", "notify", "dead"}
  /\ checkNonce \in 0..MaxNonce
  /\ todo \in SUBSET Txs
  /\ replies \in [Txs -> Replies \cup {"none"}]
  /\ panicked \in BOOLEAN

\* newTxMonitor starts both loops.
MonitorInit ==
  /\ WatchInit
  /\ fresh = TRUE
  /\ waitMap = {}
  /\ watchPc = "select"
  /\ newTx = FALSE
  /\ head = 0
  /\ headFresh = FALSE
  /\ checkPc = "select"
  /\ checkNonce = 0
  /\ todo = {}
  /\ replies = [t \in Txs |-> "none"]
  /\ panicked = FALSE

\* waitMap[nonce][t].
WaitersOf(t) == {w \in waitMap : watched[w] = t}

-----------------------------------------------------------------------------
(***************************************************************************)
(* Seeded faults: variants of the definitions they are named after.        *)
(***************************************************************************)
getOlderTxns_Inclusive(n) ==
  {t \in Txs : Known(t) /\ WaitersOf(t) # {} /\ txNonce[t] <= n}

\* The account's nonce is taken for the last one used, on the safe side.
getOlderTxns_OneBehind(n) ==
  {t \in Txs : Known(t) /\ WaitersOf(t) # {} /\ txNonce[t] + 1 < n}

\* notify leaves the transaction in the map.
Notify_NoDelete(t) ==
  /\ checkPc = "notify"
  /\ replies[t] \in {"receipt", "notfound"}
  /\ res' = [w \in Waiters |->
               IF w \notin WaitersOf(t) THEN res[w]
               ELSE IF replies[t] = "receipt" THEN "receipt" ELSE "cancelled"]
  /\ replies' = [replies EXCEPT ![t] = "none"]
  /\ UNCHANGED <<chainVars, fresh, watched, waitMap, lastConfirmedNonce,
                 watchVars, checkPc, checkNonce, todo, closed, panicked>>

-----------------------------------------------------------------------------
\* watchTx, under t.mtx: a new channel goes into the map, and watchLoop is woken
\* if it is parked in its select (the send has a default branch).
WatchTx(w, t) ==
  /\ ~panicked
  /\ watched[w] = None
  /\ Known(t)
  /\ watched' = [watched EXCEPT ![w] = t]
  /\ waitMap' = waitMap \cup {w}
  /\ \/ /\ watchPc = "select"
        /\ watchPc' = "head"
        /\ newTx' = TRUE
     \/ UNCHANGED <<watchPc, newTx>>
  /\ UNCHANGED <<chainVars, fresh, res, lastConfirmedNonce, head, headFresh,
                 checkVars, closed, panicked>>

-----------------------------------------------------------------------------
(***************************************************************************)
(* watchLoop.                                                              *)
(***************************************************************************)
Tick ==
  /\ watchPc = "select"
  /\ watchPc' = "head"
  /\ newTx' = FALSE
  /\ UNCHANGED <<watchSpecVars, fresh, waitMap, head, headFresh, checkVars,
                 panicked>>

\* BlockNumber fails, as it does once baseCtx is cancelled, or there is no later
\* block and no new transaction.
SkipHead ==
  /\ watchPc = "head"
  /\ watchPc' = "select"
  /\ UNCHANGED <<watchSpecVars, fresh, waitMap, newTx, head, headFresh,
                 checkVars, panicked>>

\* BlockNumber returns the latest block.  NonceAt will be asked about this block,
\* so its answer is fixed here; lastBlock only moves once it has answered.
ReadHead ==
  /\ watchPc = "head"
  /\ ~closed
  /\ fresh \/ newTx
  /\ head' = chainNonce
  /\ headFresh' = fresh
  /\ fresh' = FALSE
  /\ watchPc' = "nonce"
  /\ UNCHANGED <<watchSpecVars, waitMap, newTx, checkVars, panicked>>

\* NonceAt fails: lastBlock stays, so the block counts as later again.
NonceFails ==
  /\ watchPc = "nonce"
  /\ fresh' = (fresh \/ headFresh)
  /\ watchPc' = "select"
  /\ UNCHANGED <<watchSpecVars, waitMap, newTx, head, headFresh, checkVars,
                 panicked>>

ReadNonce ==
  /\ watchPc = "nonce"
  /\ ~closed
  /\ lastConfirmedNonce' = head
  /\ watchPc' = "update"
  /\ UNCHANGED <<chainVars, fresh, watched, waitMap, res, newTx, head,
                 headFresh, checkVars, closed, panicked>>

\* select { case t.blockUpdate <- waitCheck{...}: default: }: checkLoop takes
\* the update if it is parked in its select, else it is lost.
UpdateTaken ==
  /\ watchPc = "update"
  /\ checkPc = "select"
  /\ checkPc' = "collect"
  /\ checkNonce' = head
  /\ watchPc' = "select"
  /\ UNCHANGED <<watchSpecVars, fresh, waitMap, newTx, head, headFresh, todo,
                 replies, panicked>>

UpdateLost ==
  /\ watchPc = "update"
  /\ watchPc' = "select"
  /\ UNCHANGED <<watchSpecVars, fresh, waitMap, newTx, head, headFresh,
                 checkVars, panicked>>

\* baseCtx is done: the deferred cleanup tells every waiter in the map and closes
\* its channel.  The map keeps the channels.
WatchExit ==
  /\ watchPc = "select"
  /\ closed
  /\ res' = [w \in Waiters |-> IF w \in waitMap THEN "closed" ELSE res[w]]
  /\ watchPc' = "dead"
  /\ UNCHANGED <<chainVars, fresh, watched, waitMap, lastConfirmedNonce,
                 newTx, head, headFresh, checkVars, closed, panicked>>

-----------------------------------------------------------------------------
(***************************************************************************)
(* checkLoop and check.                                                    *)
(***************************************************************************)
\* getOlderTxns, under t.mtx.
getOlderTxns(n) ==
  {t \in Txs : Known(t) /\ WaitersOf(t) # {} /\ txNonce[t] < n}

Collect ==
  /\ checkPc = "collect"
  /\ todo' = getOlderTxns(checkNonce)
  /\ checkPc' = IF todo' = {} THEN "select" ELSE "batch"
  /\ UNCHANGED <<watchSpecVars, fresh, waitMap, watchVars, checkNonce,
                 replies, panicked>>

\* The next batch, in the order the map was ranged over, is answered by the
\* node: a receipt for a mined transaction, NotFound or another error.
BatchSizes == {n \in 1..batchSize : n <= Cardinality(todo)}

BatchCall ==
  /\ checkPc = "batch"
  /\ ~closed
  /\ \E batch \in SUBSET todo :
       /\ Cardinality(batch) \in BatchSizes
       /\ \A n \in BatchSizes : n <= Cardinality(batch)
       /\ \E failed \in SUBSET batch :
            replies' = [t \in Txs |->
                          IF t \notin batch THEN "none"
                          ELSE IF t \in failed THEN "error"
                          ELSE IF Mined(t) THEN "receipt" ELSE "notfound"]
       /\ todo' = todo \ batch
  /\ checkPc' = "notify"
  /\ UNCHANGED <<watchSpecVars, fresh, waitMap, watchVars, checkNonce,
                 panicked>>

\* BatchCallContext fails, as it does with a cancelled baseCtx: the rest of this
\* check is given up.
BatchFails ==
  /\ checkPc = "batch"
  /\ todo' = {}
  /\ checkPc' = "select"
  /\ UNCHANGED <<watchSpecVars, fresh, waitMap, watchVars, checkNonce,
                 replies, panicked>>

\* An answer with another error is passed over.
PassOver(t) ==
  /\ checkPc = "notify"
  /\ replies[t] = "error"
  /\ replies' = [replies EXCEPT ![t] = "none"]
  /\ UNCHANGED <<watchSpecVars, fresh, waitMap, watchVars, checkPc,
                 checkNonce, todo, panicked>>

\* notify, under t.mtx: every channel of t gets the result and is closed, and t
\* leaves the map.
ResultOf(reply) == IF reply = "receipt" THEN "receipt" ELSE "cancelled"

Notify(t) ==
  /\ checkPc = "notify"
  /\ replies[t] \in {"receipt", "notfound"}
  /\ \A w \in WaitersOf(t) : res[w] = "none"
  /\ res' = [w \in Waiters |->
               IF w \in WaitersOf(t) THEN ResultOf(replies[t]) ELSE res[w]]
  /\ waitMap' = waitMap \ WaitersOf(t)
  /\ replies' = [replies EXCEPT ![t] = "none"]
  /\ UNCHANGED <<chainVars, fresh, watched, lastConfirmedNonce, watchVars,
                 checkPc, checkNonce, todo, closed, panicked>>

\* notify meets a channel that is closed already: the send panics, and the
\* process with both loops is gone.
NotifyPanics(t) ==
  /\ checkPc = "notify"
  /\ replies[t] \in {"receipt", "notfound"}
  /\ \E w \in WaitersOf(t) : res[w] # "none"
  /\ panicked' = TRUE
  /\ watchPc' = "dead"
  /\ checkPc' = "dead"
  /\ UNCHANGED <<watchSpecVars, fresh, waitMap, newTx, head, headFresh,
                 checkNonce, todo, replies>>

BatchDone ==
  /\ checkPc = "notify"
  /\ \A t \in Txs : replies[t] = "none"
  /\ checkPc' = IF todo = {} THEN "select" ELSE "batch"
  /\ UNCHANGED <<watchSpecVars, fresh, waitMap, watchVars, checkNonce, todo,
                 replies, panicked>>

CheckExit ==
  /\ checkPc = "select"
  /\ closed
  /\ checkPc' = "dead"
  /\ UNCHANGED <<watchSpecVars, fresh, waitMap, watchVars, checkNonce, todo,
                 replies, panicked>>

\* Close cancels baseCtx (and then waits for both loops).
Close ==
  /\ ~closed /\ ~panicked
  /\ closed' = TRUE
  /\ UNCHANGED <<chainVars, fresh, watched, waitMap, res, lastConfirmedNonce,
                 watchVars, checkVars, panicked>>

-----------------------------------------------------------------------------
WatchLoop ==
  \/ Tick
  \/ SkipHead
  \/ ReadHead
  \/ NonceFails
  \/ ReadNonce
  \/ UpdateTaken
  \/ UpdateLost
  \/ WatchExit

CheckLoop ==
  \/ Collect
  \/ BatchCall
  \/ BatchFails
  \/ \E t \in Txs : PassOver(t) \/ Notify(t) \/ NotifyPanics(t)
  \/ BatchDone
  \/ CheckExit

\* The chain's moves: a block of ours or another one, and the pool.
unchangedByChain == <<tellVars, waitMap, watchVars, checkVars, panicked>>

NewBlock ==
  /\ Block \/ UNCHANGED chainVars
  /\ fresh' = TRUE
  /\ UNCHANGED unchangedByChain

PoolMoves ==
  /\ \/ \E t \in Txs : DropTx(t)
     \/ \E t \in Txs, n \in Nonces : Submit(t, n)
  /\ UNCHANGED <<fresh, unchangedByChain>>

MonitorNext ==
  \/ WatchLoop
  \/ CheckLoop
  \/ Close
  \/ NewBlock
  \/ PoolMoves
  \/ \E w \in Waiters, t \in Txs : WatchTx(w, t)

MonitorSpec == MonitorInit /\ [][MonitorNext]_monitorVars

(***************************************************************************)
(* Fairness for the liveness property.  The ticker fires and the loops     *)
(* run; blocks keep coming; an RPC that is tried again and again does not  *)
(* fail every time, and an update that is offered again and again does not *)
(* find checkLoop busy every time (a check takes finitely long, the next   *)
(* update comes with the next block).                                      *)
(***************************************************************************)
BatchAnswers(t) == BatchCall /\ replies'[t] \in {"receipt", "notfound"}

MonitorFairness ==
  /\ WF_monitorVars(NewBlock)
  /\ WF_monitorVars(Tick) /\ WF_monitorVars(SkipHead) /\ SF_monitorVars(ReadHead)
  /\ SF_monitorVars(ReadNonce) /\ WF_monitorVars(NonceFails)
  /\ SF_monitorVars(UpdateTaken) /\ WF_monitorVars(UpdateLost)
  /\ WF_monitorVars(Collect) /\ WF_monitorVars(BatchDone)
  /\ \A t \in Txs : /\ SF_monitorVars(BatchAnswers(t))
                    /\ WF_monitorVars(Notify(t))
                    /\ WF_monitorVars(PassOver(t))

MonitorFairSpec == MonitorSpec /\ MonitorFairness

-----------------------------------------------------------------------------
\* What a waiter is told is true: a receipt means that the transaction is mined,
\* and ErrTxnCancelled that another one used its nonce up, although the head, the
\* nonce and the receipts are read in three calls while the chain moves on.
ToldTheTruth ==
  \A w \in Waiters :
    /\ res[w] = "receipt" => Mined(watched[w])
    /\ res[w] = "cancelled" => Settled(watched[w]) /\ ~Mined(watched[w])

\* A waiter on a transaction whose nonce is used up is told, unless the monitor
\* is closed: neither a lost update nor a lost wake-up nor a failed call leaves
\* it in the map for ever.
SettledIsTold ==
  \A w \in Waiters :
    (w \in waitMap /\ Settled(watched[w])) ~> (res[w] # "none" \/ closed)

\* Closing the monitor does not crash the process: no loop sends on a channel
\* that the other one closed.
NoPanic == ~panicked
=============================================================================
