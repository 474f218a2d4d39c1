-------------------------- MODULE EvmClientProofs ---------------------------
(***************************************************************************)
(* Theorems about the package evmclient: first the monitor and the promise *)
(* it keeps (TxWatch), then the client, which is built on that promise.    *)
(***************************************************************************)
EXTENDS EvmClient, TxMonitor, TLAPS

-----------------------------------------------------------------------------
(***************************************************************************)
(* The monitor implements what TxWatch promises, for any number of         *)
(* transactions, waiters and nonces and any batch size: every step of its  *)
(* loops is a step of TxWatch or changes nothing a client sees.  The proof *)
(* carries the account's nonce along the path head -> checkNonce -> todo   *)
(* -> replies -> res: whatever is on its way was true of the chain when it *)
(* was read and cannot become false, because used-up nonces stay used up.  *)
(***************************************************************************)

\* The slots below the account's nonce are filled, the others are not.
SlotsFilled == \A n \in Nonces : n < chainNonce <=> mined[n] # None

\* The nonces the loops carry around are old ones.
NoncesBehind ==
  /\ lastConfirmedNonce <= head
  /\ head <= chainNonce
  /\ checkNonce <= chainNonce

\* checkLoop only asks about transactions whose nonce is used up.
TodoSettled == \A t \in todo : Settled(t)

\* Answers on their way to notify.
RepliesTrue ==
  \A t \in Txs : replies[t] \in {"receipt", "notfound"} =>
    Settled(t) /\ (replies[t] = "receipt" <=> Mined(t))

\* Until watchLoop has ended, nobody in the map has been told.
MapUntold ==
  /\ \A w \in Waiters : res[w] # "none" => watched[w] # None
  /\ watchPc # "dead" => \A w \in waitMap : res[w] = "none"

MonitorIInv ==
  /\ MonitorTypeOK
  /\ SlotsFilled
  /\ NoncesBehind
  /\ TodoSettled
  /\ RepliesTrue
  /\ MapUntold
  /\ ToldTheTruth

-----------------------------------------------------------------------------
(***************************************************************************)
(* Types and the chain.                                                    *)
(***************************************************************************)

\* The invariant holds when the monitor starts.
LEMMA MonitorInitIInv == MonitorInit => MonitorIInv
<1> SUFFICES ASSUME MonitorInit PROVE MonitorIInv
  OBVIOUS
<1> USE MaxNonceAssumption, ChainNoneAssumption
    DEF MonitorInit, WatchInit, ChainInit, MonitorTypeOK, WatchTypeOK, ChainTypeOK,
        Results, Replies, Nonces
<1>1. MonitorTypeOK
  <2>1. ChainTypeOK
    OBVIOUS
  <2>2. WatchTypeOK
    <3>1. watched \in [Waiters -> Txs \cup {None}]
      OBVIOUS
    <3>2. res \in [Waiters -> Results \cup {"none"}]
      OBVIOUS
    <3>3. lastConfirmedNonce \in 0..MaxNonce
      OBVIOUS
    <3>4. closed \in BOOLEAN
      OBVIOUS
    <3> QED
      BY <2>1, <3>1, <3>2, <3>3, <3>4
  <2> QED
    BY <2>2
<1>2. SlotsFilled
  BY DEF SlotsFilled
<1>3. NoncesBehind
  BY DEF NoncesBehind
<1>4. TodoSettled /\ RepliesTrue /\ MapUntold /\ ToldTheTruth
  BY DEF TodoSettled, RepliesTrue, MapUntold, ToldTheTruth
<1> QED
  BY <1>1, <1>2, <1>3, <1>4 DEF MonitorIInv

\* Every action keeps the types.
LEMMA MonitorTypeStep == MonitorTypeOK /\ [MonitorNext]_monitorVars => MonitorTypeOK'
<1> SUFFICES ASSUME MonitorTypeOK, [MonitorNext]_monitorVars
             PROVE  MonitorTypeOK'
  OBVIOUS
<1> USE MaxNonceAssumption, ChainNoneAssumption
    DEF MonitorTypeOK, WatchTypeOK, ChainTypeOK, Results, Replies, Nonces,
        watchSpecVars, tellVars, chainVars, watchVars, checkVars
<1>1. CASE WatchLoop
  <2>1. CASE Tick \/ SkipHead \/ UpdateLost
    BY <2>1 DEF Tick, SkipHead, UpdateLost
  <2>2. CASE ReadHead
    BY <2>2 DEF ReadHead
  <2>3. CASE NonceFails
    BY <2>3 DEF NonceFails
  <2>4. CASE ReadNonce \/ UpdateTaken
    BY <2>4 DEF ReadNonce, UpdateTaken
  <2>5. CASE WatchExit
    BY <2>5 DEF WatchExit
  <2> QED
    BY <1>1, <2>1, <2>2, <2>3, <2>4, <2>5 DEF WatchLoop
<1>2. CASE Collect \/ BatchFails \/ BatchDone \/ CheckExit
  BY <1>2 DEF Collect, getOlderTxns, BatchFails, BatchDone, CheckExit
<1>3. CASE BatchCall
  BY <1>3 DEF BatchCall
<1>4. ASSUME NEW t \in Txs, PassOver(t) \/ Notify(t) \/ NotifyPanics(t)
      PROVE  MonitorTypeOK'
  <2>1. CASE PassOver(t)
    BY <2>1 DEF PassOver
  <2>2. CASE Notify(t)
    <3>1. res' \in [Waiters -> Results \cup {"none"}]
      BY <2>2 DEF Notify, ResultOf
    <3>2. waitMap' \subseteq waitMap /\ watched' = watched
      BY <2>2 DEF Notify
    <3>3. replies' \in [Txs -> Replies \cup {"none"}]
      BY <2>2 DEF Notify
    <3> QED
      BY <2>2, <3>1, <3>2, <3>3 DEF Notify
  <2>3. CASE NotifyPanics(t)
    BY <2>3 DEF NotifyPanics
  <2> QED
    BY <1>4, <2>1, <2>2, <2>3
<1>5. CASE Close
  BY <1>5 DEF Close
<1>6. CASE NewBlock
  BY <1>6 DEF NewBlock, Block, MineTx, MineExternal, unchangedByChain
<1>7. CASE PoolMoves
  BY <1>7 DEF PoolMoves, DropTx, Submit, unchangedByChain
<1>8. ASSUME NEW w \in Waiters, NEW t \in Txs, WatchTx(w, t)
      PROVE  MonitorTypeOK'
  <2>1. watched' \in [Waiters -> Txs \cup {None}]
    BY <1>8 DEF WatchTx
  <2>2. waitMap' \in SUBSET {v \in Waiters : watched'[v] # None}
    BY <1>8 DEF WatchTx
  <2> QED
    BY <1>8, <2>1, <2>2 DEF WatchTx
<1>9. CASE UNCHANGED monitorVars
  BY <1>9 DEF monitorVars
<1> QED
  BY <1>1, <1>2, <1>3, <1>4, <1>5, <1>6, <1>7, <1>8, <1>9 DEF MonitorNext, CheckLoop

\* Used-up nonces stay used up: no move of the chain changes what became of a
\* settled transaction.
LEMMA ChainStable ==
  ASSUME MonitorTypeOK, SlotsFilled,
         \/ Block
         \/ \E t \in Txs : DropTx(t)
         \/ \E t \in Txs, n \in Nonces : Submit(t, n)
         \/ UNCHANGED chainVars
  PROVE  /\ SlotsFilled'
         /\ chainNonce <= chainNonce'
         /\ \A t \in Txs : Settled(t) => Settled(t)' /\ (Mined(t)' <=> Mined(t))
<1> USE MaxNonceAssumption, ChainNoneAssumption
    DEF MonitorTypeOK, WatchTypeOK, ChainTypeOK, Nonces, SlotsFilled, Settled, Mined, Known
<1>1. CASE MineExternal
  BY <1>1 DEF MineExternal
<1>2. ASSUME NEW t \in Txs, MineTx(t)
      PROVE  /\ SlotsFilled'
             /\ chainNonce <= chainNonce'
             /\ \A u \in Txs : Settled(u) => Settled(u)' /\ (Mined(u)' <=> Mined(u))
  BY <1>2 DEF MineTx
<1>3. CASE \E t \in Txs : DropTx(t)
  BY <1>3 DEF DropTx
<1>4. ASSUME NEW t \in Txs, NEW n \in Nonces, Submit(t, n)
      PROVE  /\ SlotsFilled'
             /\ chainNonce <= chainNonce'
             /\ \A u \in Txs : Settled(u) => Settled(u)' /\ (Mined(u)' <=> Mined(u))
  BY <1>4 DEF Submit
<1>5. CASE UNCHANGED chainVars
  BY <1>5 DEF chainVars
<1> QED
  BY <1>1, <1>2, <1>3, <1>4, <1>5 DEF Block

-----------------------------------------------------------------------------
(***************************************************************************)
(* Every action keeps the rest of the invariant.                           *)
(***************************************************************************)

\* watchLoop carries the account's nonce to lastConfirmedNonce and checkNonce,
\* and when it ends tells those in the map that the monitor is closed.
LEMMA WatchLoopKeeps ==
  ASSUME MonitorIInv, MonitorTypeOK', WatchLoop
  PROVE  MonitorIInv'
<1> USE DEF MonitorIInv, WatchLoop, Tick, SkipHead, ReadHead, NonceFails, ReadNonce, UpdateTaken,
            UpdateLost, WatchExit, watchSpecVars, tellVars, chainVars, checkVars
<1>1. UNCHANGED chainVars /\ UNCHANGED <<watched, todo, replies>>
  OBVIOUS
<1>2. SlotsFilled'
  BY <1>1 DEF SlotsFilled, Nonces
<1>3. NoncesBehind'
  BY MaxNonceAssumption
  DEF NoncesBehind, MonitorTypeOK, WatchTypeOK, ChainTypeOK
<1>4. TodoSettled' /\ RepliesTrue'
  BY <1>1 DEF TodoSettled, RepliesTrue, Settled, Mined, Known
<1>5. MapUntold'
  BY DEF MapUntold, MonitorTypeOK, WatchTypeOK
<1>6. ToldTheTruth'
  BY <1>1 DEF ToldTheTruth, Settled, Mined, Known, MonitorTypeOK, WatchTypeOK
<1> QED
  BY <1>2, <1>3, <1>4, <1>5, <1>6

\* checkLoop's steps that tell nobody: what it collects is settled, and the
\* answers it gets are true of settled transactions.
LEMMA CheckQuietKeeps ==
  ASSUME MonitorIInv, MonitorTypeOK',
         Collect \/ BatchCall \/ BatchFails \/ BatchDone \/ CheckExit
         \/ \E t \in Txs : PassOver(t) \/ NotifyPanics(t)
  PROVE  MonitorIInv'
<1> USE DEF MonitorIInv, Collect, getOlderTxns, BatchCall, BatchFails, BatchDone, CheckExit, PassOver,
            NotifyPanics, watchSpecVars, tellVars, chainVars, watchVars, checkVars
<1>1. UNCHANGED chainVars /\ UNCHANGED <<tellVars, waitMap, head>>
  OBVIOUS
<1>2. SlotsFilled'
  BY <1>1 DEF SlotsFilled, Nonces
<1>3. NoncesBehind'
  BY DEF NoncesBehind
<1>4. TodoSettled'
  BY MaxNonceAssumption
  DEF TodoSettled, NoncesBehind, Settled, Known, MonitorTypeOK, WatchTypeOK, ChainTypeOK, Nonces
<1>5. RepliesTrue'
  <2>1. CASE BatchCall
    <3> SUFFICES ASSUME NEW t \in Txs, replies'[t] \in {"receipt", "notfound"}
                 PROVE  Settled(t)' /\ (replies'[t] = "receipt" <=> Mined(t)')
      BY DEF RepliesTrue
    <3>1. (Settled(t)' <=> Settled(t)) /\ (Mined(t)' <=> Mined(t))
      BY <1>1 DEF Settled, Mined, Known
    <3>2. t \in todo
      BY <2>1
    <3>3. replies'[t] = "receipt" <=> Mined(t)
      BY <2>1
    <3> QED
      BY <3>1, <3>2, <3>3 DEF TodoSettled
  <2>2. CASE ~BatchCall
    BY <1>1, <2>2 DEF RepliesTrue, Settled, Mined, Known, MonitorTypeOK
  <2> QED
    BY <2>1, <2>2
<1>6. MapUntold'
  BY DEF MapUntold
<1>7. ToldTheTruth'
  BY <1>1 DEF ToldTheTruth, Settled, Mined, Known
<1> QED
  BY <1>2, <1>3, <1>4, <1>5, <1>6, <1>7

\* notify passes a true answer on and takes the transaction out of the map.
LEMMA NotifyKeeps ==
  ASSUME MonitorIInv, MonitorTypeOK', NEW t \in Txs, Notify(t)
  PROVE  MonitorIInv'
<1> USE DEF MonitorIInv, Notify, watchSpecVars, tellVars, chainVars, watchVars, checkVars
<1>1. UNCHANGED chainVars /\ UNCHANGED <<watched, head, todo>>
  OBVIOUS
<1>2. SlotsFilled'
  BY <1>1 DEF SlotsFilled, Nonces
<1>3. NoncesBehind'
  BY DEF NoncesBehind
<1>4. TodoSettled' /\ RepliesTrue'
  BY <1>1 DEF TodoSettled, RepliesTrue, Settled, Mined, Known, MonitorTypeOK
<1>5. MapUntold'
  BY ChainNoneAssumption DEF MapUntold, WaitersOf, MonitorTypeOK, WatchTypeOK
<1>6. ToldTheTruth'
  BY <1>1 DEF ToldTheTruth, RepliesTrue, ResultOf, WaitersOf, Settled, Mined, Known, MonitorTypeOK,
              WatchTypeOK
<1> QED
  BY <1>2, <1>3, <1>4, <1>5, <1>6

\* The chain cannot undo what the monitor has found out.
LEMMA ChainKeeps ==
  ASSUME MonitorIInv, MonitorTypeOK', NewBlock \/ PoolMoves
  PROVE  MonitorIInv'
<1> USE DEF MonitorIInv, NewBlock, PoolMoves, unchangedByChain, tellVars, watchVars, checkVars
<1>1. /\ SlotsFilled'
      /\ chainNonce <= chainNonce'
      /\ \A t \in Txs : Settled(t) => Settled(t)' /\ (Mined(t)' <=> Mined(t))
  BY ChainStable
<1>2. NoncesBehind'
  BY <1>1, MaxNonceAssumption DEF NoncesBehind, MonitorTypeOK, WatchTypeOK, ChainTypeOK
<1>3. TodoSettled' /\ RepliesTrue'
  BY <1>1 DEF TodoSettled, RepliesTrue, MonitorTypeOK
<1>4. MapUntold'
  BY DEF MapUntold
<1>5. ToldTheTruth'
  <2>1. \A t \in Txs : Mined(t) => Settled(t)
    BY MaxNonceAssumption, ChainNoneAssumption
    DEF Mined, Settled, Known, SlotsFilled, MonitorTypeOK, WatchTypeOK, ChainTypeOK, Nonces
  <2> QED
    BY <1>1, <2>1 DEF ToldTheTruth, MapUntold, MonitorTypeOK, WatchTypeOK
<1> QED
  BY <1>1, <1>2, <1>3, <1>4, <1>5

\* A new waiter has not been told anything.
LEMMA WatchTxKeeps ==
  ASSUME MonitorIInv, MonitorTypeOK', NEW w \in Waiters, NEW t \in Txs, WatchTx(w, t)
  PROVE  MonitorIInv'
<1> USE DEF MonitorIInv, WatchTx, chainVars, checkVars
<1>1. UNCHANGED chainVars /\ UNCHANGED <<res, head, todo, replies>>
  OBVIOUS
<1>2. SlotsFilled' /\ NoncesBehind'
  BY <1>1 DEF SlotsFilled, NoncesBehind, Nonces
<1>3. TodoSettled' /\ RepliesTrue'
  BY <1>1 DEF TodoSettled, RepliesTrue, Settled, Mined, Known
<1>4. MapUntold'
  BY ChainNoneAssumption DEF MapUntold, MonitorTypeOK, WatchTypeOK
<1>5. ToldTheTruth'
  BY <1>1 DEF ToldTheTruth, MapUntold, Settled, Mined, Known, MonitorTypeOK, WatchTypeOK
<1> QED
  BY <1>2, <1>3, <1>4, <1>5

\* MonitorIInv is inductive.
LEMMA MonitorIInvStep == MonitorIInv /\ [MonitorNext]_monitorVars => MonitorIInv'
<1> SUFFICES ASSUME MonitorIInv, [MonitorNext]_monitorVars PROVE MonitorIInv'
  OBVIOUS
<1>0. MonitorTypeOK'
  BY MonitorTypeStep DEF MonitorIInv
<1>1. CASE WatchLoop
  BY <1>0, <1>1, WatchLoopKeeps
<1>2. CASE CheckLoop
  BY <1>0, <1>2, CheckQuietKeeps, NotifyKeeps DEF CheckLoop
<1>3. CASE Close \/ UNCHANGED monitorVars
  BY <1>0, <1>3
  DEF Close, monitorVars, watchSpecVars, tellVars, chainVars, watchVars, checkVars, MonitorIInv,
      SlotsFilled, NoncesBehind, TodoSettled, RepliesTrue, MapUntold, ToldTheTruth,
      Settled, Mined, Known, Nonces
<1>4. CASE NewBlock \/ PoolMoves
  BY <1>0, <1>4, ChainKeeps
<1>5. CASE \E w \in Waiters, t \in Txs : WatchTx(w, t)
  BY <1>0, <1>5, WatchTxKeeps
<1> QED
  BY <1>1, <1>2, <1>3, <1>4, <1>5 DEF MonitorNext

-----------------------------------------------------------------------------
(***************************************************************************)
(* The theorems.                                                           *)
(***************************************************************************)

\* Every reachable state of the monitor satisfies the inductive invariant.
THEOREM MonitorInvariance == MonitorSpec => []MonitorIInv
  BY MonitorInitIInv, MonitorIInvStep, PTL DEF MonitorSpec

\* Type correctness of the chain's and the monitor's state.
THEOREM MonitorTypeCorrect == MonitorSpec => []MonitorTypeOK
<1>1. MonitorIInv => MonitorTypeOK
  BY DEF MonitorIInv
<1> QED
  BY MonitorInvariance, <1>1, PTL

\* notify never gives a receipt for a transaction that is not mined, nor
\* ErrTxnCancelled for one that is or still can be.
THEOREM Truth == MonitorSpec => []ToldTheTruth
<1>1. MonitorIInv => ToldTheTruth
  BY DEF MonitorIInv
<1> QED
  BY MonitorInvariance, <1>1, PTL

\* The monitor of txmonitor.go implements TxWatch, the contract EvmClient is
\* built on.
THEOREM MonitorImplementsWatch == MonitorSpec => WatchSpec
<1>1. MonitorInit => WatchInit
  BY DEF MonitorInit
<1>2. MonitorIInv /\ [MonitorNext]_monitorVars => [WatchNext]_watchSpecVars
  <2> SUFFICES ASSUME MonitorIInv, [MonitorNext]_monitorVars
               PROVE  WatchNext \/ UNCHANGED watchSpecVars
    OBVIOUS
  <2> USE DEF WatchNext, WatchStep
  <2>1. CASE ReadNonce
    <3>1. lastConfirmedNonce' \in lastConfirmedNonce..chainNonce
      BY <2>1, MaxNonceAssumption
      DEF ReadNonce, MonitorIInv, NoncesBehind, MonitorTypeOK, WatchTypeOK, ChainTypeOK
    <3>2. Confirm
      BY <2>1, <3>1 DEF ReadNonce, Confirm
    <3> QED
      BY <3>2
  <2>2. CASE WatchExit
    <3>1. TellClosed(waitMap) /\ waitMap \in SUBSET Waiters
      BY <2>2 DEF WatchExit, TellClosed, MonitorIInv, MapUntold, MonitorTypeOK
    <3> QED
      BY <3>1
  <2>3. CASE Tick \/ SkipHead \/ ReadHead \/ NonceFails \/ UpdateTaken \/ UpdateLost
    BY <2>3 DEF Tick, SkipHead, ReadHead, NonceFails, UpdateTaken, UpdateLost
  <2>4. ASSUME NEW t \in Txs, Notify(t) PROVE WatchNext
    <3>1. WaitersOf(t) \in SUBSET Waiters /\ WaitersOf(t) \subseteq Untold(t)
      BY <2>4 DEF Notify, WaitersOf, Untold, MonitorIInv, MonitorTypeOK
    <3>2. Settled(t) /\ ResultOf(replies[t]) = IF Mined(t) THEN "receipt" ELSE "cancelled"
      BY <2>4 DEF Notify, ResultOf, MonitorIInv, RepliesTrue
    <3>3. Tell(t, WaitersOf(t))
      BY <2>4, <3>1, <3>2 DEF Notify, Tell
    <3> QED
      BY <3>1, <3>3
  <2>5. CASE \/ Collect \/ BatchCall \/ BatchFails \/ BatchDone \/ CheckExit
             \/ \E t \in Txs : PassOver(t) \/ NotifyPanics(t)
    BY <2>5 DEF Collect, BatchCall, BatchFails, BatchDone, CheckExit, PassOver, NotifyPanics,
                watchSpecVars, tellVars
  <2>6. CASE Close
    BY <2>6 DEF Close, CloseWatch
  <2>7. CASE NewBlock \/ PoolMoves
    BY <2>7 DEF NewBlock, PoolMoves, ChainMoves, unchangedByChain, watchSpecVars
  <2>8. ASSUME NEW w \in Waiters, NEW t \in Txs, WatchTx(w, t) PROVE WatchNext
    BY <2>8 DEF WatchTx, Register
  <2>9. CASE UNCHANGED monitorVars
    BY <2>9 DEF monitorVars
  <2> QED
    BY <2>1, <2>2, <2>3, <2>4, <2>5, <2>6, <2>7, <2>8, <2>9 DEF MonitorNext, WatchLoop, CheckLoop
<1> QED
  BY <1>1, <1>2, MonitorInvariance, PTL DEF MonitorSpec, WatchSpec

\* A result is final.
ToldForGood == \A w \in Waiters : res[w] # "none" => res'[w] = res[w]

\* A channel gets one result, whatever notify, checkLoop's retries and the cleanup of
\* watchLoop do: its one place never has to take a second one, and no waiter is told
\* two things.
THEOREM ToldOnce == MonitorSpec => [][ToldForGood]_monitorVars
<1>1. MonitorIInv /\ [MonitorNext]_monitorVars => [ToldForGood]_monitorVars
  <2> SUFFICES ASSUME MonitorIInv, MonitorNext, NEW w \in Waiters, res[w] # "none"
               PROVE  res'[w] = res[w]
    BY DEF ToldForGood
  <2> USE DEF watchSpecVars, tellVars
  <2>1. CASE WatchLoop
    <3>1. CASE WatchExit
      BY <3>1 DEF WatchExit, MonitorIInv, MapUntold
    <3>2. CASE ~WatchExit
      BY <2>1, <3>2 DEF WatchLoop, Tick, SkipHead, ReadHead, NonceFails, ReadNonce, UpdateTaken,
                        UpdateLost
    <3> QED
      BY <3>1, <3>2
  <2>2. ASSUME NEW t \in Txs, PassOver(t) \/ Notify(t) \/ NotifyPanics(t)
        PROVE  res'[w] = res[w]
    BY <2>2 DEF PassOver, Notify, NotifyPanics
  <2>3. CASE Collect \/ BatchCall \/ BatchFails \/ BatchDone \/ CheckExit \/ Close
    BY <2>3 DEF Collect, BatchCall, BatchFails, BatchDone, CheckExit, Close
  <2>4. CASE NewBlock \/ PoolMoves
    BY <2>4 DEF NewBlock, PoolMoves, unchangedByChain
  <2>5. CASE \E v \in Waiters, t \in Txs : WatchTx(v, t)
    BY <2>5 DEF WatchTx
  <2> QED
    BY <2>1, <2>2, <2>3, <2>4, <2>5 DEF MonitorNext, CheckLoop
<1> QED
  BY <1>1, MonitorInvariance, PTL DEF MonitorSpec

\* watchLoop ends, and checkLoop panics, only after Close.
EndsOnClose == panicked \/ watchPc = "dead" => closed

\* How far the panic of notify reaches: it takes a Close.  While the monitor is
\* open no channel in the map is closed, so notify has none to send on.
THEOREM PanicNeedsClose == MonitorSpec => [](panicked => closed)
<1>1. MonitorInit => EndsOnClose
  BY DEF MonitorInit, EndsOnClose
<1>2. MonitorIInv /\ EndsOnClose /\ [MonitorNext]_monitorVars => EndsOnClose'
  <2> SUFFICES ASSUME MonitorIInv, EndsOnClose, [MonitorNext]_monitorVars
               PROVE  EndsOnClose'
    OBVIOUS
  <2> USE DEF EndsOnClose, watchSpecVars, tellVars, watchVars
  <2>1. CASE WatchLoop
    BY <2>1 DEF WatchLoop, Tick, SkipHead, ReadHead, NonceFails, ReadNonce, UpdateTaken,
                UpdateLost, WatchExit
  <2>2. ASSUME NEW t \in Txs, NotifyPanics(t)
        PROVE  EndsOnClose'
    <3>1. watchPc = "dead"
      BY <2>2 DEF NotifyPanics, WaitersOf, MonitorIInv, MapUntold
    <3> QED
      BY <2>2, <3>1 DEF NotifyPanics
  <2>3. ASSUME NEW t \in Txs, PassOver(t) \/ Notify(t)
        PROVE  EndsOnClose'
    BY <2>3 DEF PassOver, Notify
  <2>4. CASE Collect \/ BatchCall \/ BatchFails \/ BatchDone \/ CheckExit \/ Close
    BY <2>4 DEF Collect, BatchCall, BatchFails, BatchDone, CheckExit, Close
  <2>5. CASE NewBlock \/ PoolMoves
    BY <2>5 DEF NewBlock, PoolMoves, unchangedByChain
  <2>6. CASE \E v \in Waiters, t \in Txs : WatchTx(v, t)
    BY <2>6 DEF WatchTx
  <2>7. CASE UNCHANGED monitorVars
    BY <2>7 DEF monitorVars
  <2> QED
    BY <2>1, <2>2, <2>3, <2>4, <2>5, <2>6, <2>7 DEF MonitorNext, CheckLoop
<1>3. EndsOnClose => (panicked => closed)
  BY DEF EndsOnClose
<1> QED
  BY <1>1, <1>2, <1>3, MonitorInvariance, PTL DEF MonitorSpec

-----------------------------------------------------------------------------
(***************************************************************************)
(* The nonce discipline of EvmClient for any number of transactions,       *)
(* waiters and nonces and any maxSentTxs.  What has to be carried through  *)
(* the two steps of Send and CancelTx is what the nonce in hand was when   *)
(* it was chosen: within the window, next to the pool's last one, and (for *)
(* Send) free.                                                             *)
(***************************************************************************)

\* What a submission adds to the transactions of Send.
BySend == IF mtx.op = "send" THEN {mtx.tx} ELSE {}

InPool(n) == \E u \in pool : txNonce[u] = n
StaysIn(n) == \E u \in pool' : txNonce'[u] = n

\* lastConfirmedNonce lags, and what is in the pool or came from Send has a nonce.
Behind ==
  /\ lastConfirmedNonce <= chainNonce
  /\ \A t \in pool \cup fromSend : Known(t)

\* The pool, and the transaction in hand, are within the window, but for nonces of
\* other senders.
InWindow(n) == n <= lastConfirmedNonce + maxSentTxs \/ n \in foreign
Window ==
  /\ \A t \in pool : InWindow(txNonce[t])
  /\ mtx # None /\ mtx.op # "foreign" => InWindow(mtx.nonce)

\* While nothing is dropped: the pool has no gaps but below nonces of other senders,
\* c.nonce and the nonce in hand are at most one past its end, and the nonce Send
\* has in hand is free.
PoolContiguous ==
  \A t \in pool : txNonce[t] \in foreign \/ \A n \in chainNonce..txNonce[t] : InPool(n)
LocalNext == \A n \in chainNonce..(nonce - 1) : InPool(n)
InHandNext ==
  mtx # None =>
    \/ mtx.op = "foreign"
    \/ mtx.op = "cancel" /\ mtx.nonce \in foreign
    \/ \A n \in chainNonce..(mtx.nonce - 1) : InPool(n)
InHandFree ==
  (mtx # None /\ mtx.op = "send") => nonce <= mtx.nonce /\ ~InPool(mtx.nonce)

Contiguous == dropped = {} => PoolContiguous /\ LocalNext /\ InHandNext /\ InHandFree

IInv ==
  /\ TypeOK
  /\ Behind
  /\ Window
  /\ Contiguous
  /\ OnlyCancelReplaces

-----------------------------------------------------------------------------
\* The invariant holds when the client starts.
LEMMA InitIInv == Init => IInv
<1> SUFFICES ASSUME Init PROVE IInv
  OBVIOUS
<1> USE MaxNonceAssumption, ChainNoneAssumption, MaxSentAssumption
    DEF Init, WatchInit, ChainInit, Nonces
<1>1. ChainTypeOK
  BY DEF ChainTypeOK
<1>2. WatchTypeOK
  <2>1. watched \in [Waiters -> Txs \cup {None}] /\ res \in [Waiters -> Results \cup {"none"}]
    BY DEF Results
  <2>2. lastConfirmedNonce \in 0..MaxNonce
    OBVIOUS
  <2>3. closed \in BOOLEAN
    OBVIOUS
  <2> QED
    BY <1>1, <2>1, <2>2, <2>3 DEF WatchTypeOK
<1>3. TypeOK
  BY <1>2 DEF TypeOK
<1>4. Behind /\ Window
  BY DEF Behind, Window
<1>5. Contiguous
  BY <1>1 DEF ChainTypeOK, Contiguous, PoolContiguous, LocalNext, InHandNext, InHandFree
<1>6. OnlyCancelReplaces
  BY DEF OnlyCancelReplaces
<1> QED
  BY <1>3, <1>4, <1>5, <1>6 DEF IInv

\* Every action keeps the types.
LEMMA TypeStep == TypeOK /\ Behind /\ [Next]_vars => TypeOK'
<1> SUFFICES ASSUME TypeOK, Behind, [Next]_vars PROVE TypeOK'
  OBVIOUS
<1> USE MaxNonceAssumption, ChainNoneAssumption, WaiterAssumption
    DEF TypeOK, WatchTypeOK, ChainTypeOK, Results, Nonces, Submission,
        vars, clientVars, history, watchSpecVars, tellVars, chainVars
<1>1. ASSUME NEW t \in Txs, SendPrepare(t) PROVE TypeOK'
  BY <1>1 DEF SendPrepare, localNonce
<1>2. CASE SendRefused
  BY <1>2 DEF SendRefused, localNonce
<1>3. ASSUME NEW t \in Txs, NEW u \in Txs, CancelPrepare(t, u) PROVE TypeOK'
  BY <1>3 DEF CancelPrepare, Behind, Known
<1>14. ASSUME NEW u \in Txs, CancelForeign(u) PROVE TypeOK'
  BY <1>14 DEF CancelForeign
<1>4. CASE SubmitOK
  <2>1. mtx \in Submission /\ Taken
    BY <1>4 DEF SubmitOK
  <2>2. /\ fromSend' \in SUBSET Txs /\ foreign' \in SUBSET Nonces
        /\ txNonce' \in [Txs -> Nonces \cup {None}] /\ pool' \in SUBSET Txs
        /\ UNCHANGED <<dropped, mined, chainNonce>>
    BY <2>1 DEF Taken, Submit
  <2>3. /\ nonce' \in Nat /\ sentTxs' \in SUBSET Txs
        /\ goPc' \in [Txs -> {"none", "watch", "wait", "forget", "done"}]
        /\ mtx' = None /\ UNCHANGED <<tellVars, callPc, callTx>>
    BY <1>4, <2>1 DEF SubmitOK
  <2> QED
    BY <2>2, <2>3
<1>5. CASE SubmitLost
  BY <1>5 DEF SubmitLost, Taken, Submit
<1>6. CASE SubmitFails
  BY <1>6 DEF SubmitFails
<1>7. ASSUME NEW t \in Txs, GoWatch(t) \/ GoResult(t) \/ GoForget(t) PROVE TypeOK'
  <2>1. CASE GoWatch(t)
    BY <2>1 DEF GoWatch, Register
  <2>2. CASE GoResult(t)
    BY <2>2 DEF GoResult
  <2>3. CASE GoForget(t)
    BY <2>3 DEF GoForget
  <2> QED
    BY <1>7, <2>1, <2>2, <2>3
<1>8. ASSUME NEW c \in Callers, NEW t \in Txs, CallLookUp(c, t) PROVE TypeOK'
  BY <1>8 DEF CallLookUp
<1>9. ASSUME NEW c \in Callers, CallWatch(c) PROVE TypeOK'
  <2>1. txNonce' = txNonce /\ watched' = [watched EXCEPT ![c] = callTx[c]]
    BY <1>9 DEF CallWatch, Register
  <2> QED
    BY <1>9, <2>1 DEF CallWatch, Register
<1>10. ASSUME NEW c \in Callers, CallResult(c) \/ CallCtxDone(c) PROVE TypeOK'
  BY <1>10 DEF CallResult, CallCtxDone
<1>11. CASE MonitorRuns
  <2>1. CASE Confirm
    BY <1>11, <2>1 DEF MonitorRuns, Confirm
  <2>2. ASSUME NEW t \in Txs, NEW W \in SUBSET Waiters, Tell(t, W) PROVE TypeOK'
    BY <1>11, <2>2 DEF MonitorRuns, Tell
  <2>3. ASSUME NEW W \in SUBSET Waiters, TellClosed(W) PROVE TypeOK'
    BY <1>11, <2>3 DEF MonitorRuns, TellClosed
  <2>4. CASE CloseWatch
    BY <1>11, <2>4 DEF MonitorRuns, CloseWatch
  <2> QED
    BY <1>11, <2>1, <2>2, <2>3, <2>4 DEF MonitorRuns, WatchStep
<1>12. CASE ChainRuns
  <2>1. CASE MineExternal
    BY <1>12, <2>1 DEF ChainRuns, ChainMoves, MineExternal
  <2>2. ASSUME NEW t \in Txs, MineTx(t) PROVE TypeOK'
    BY <1>12, <2>2 DEF ChainRuns, ChainMoves, MineTx
  <2>3. ASSUME NEW t \in Txs, DropTx(t) PROVE TypeOK'
    BY <1>12, <2>3 DEF ChainRuns, ChainMoves, DropTx
  <2> QED
    BY <1>12, <2>1, <2>2, <2>3 DEF ChainRuns, ChainMoves, Block
<1>13. CASE UNCHANGED vars
  BY <1>13
<1> QED
  BY <1>1, <1>2, <1>3, <1>4, <1>5, <1>6, <1>7, <1>8, <1>9, <1>10, <1>11, <1>12, <1>13,
     <1>14
  DEF Next, ClientStep

-----------------------------------------------------------------------------
(***************************************************************************)
(* For nonces only some steps matter; every other one is Quiet.            *)
(***************************************************************************)
Quiet == UNCHANGED <<chainVars, lastConfirmedNonce, nonce, mtx, history>>
Confirms == Confirm /\ UNCHANGED clientVars
Submits == SubmitOK \/ SubmitLost

\* A step of the client is one of these.
LEMMA StepKinds ==
  ASSUME [Next]_vars
  PROVE  \/ Quiet
         \/ \E t \in Txs : SendPrepare(t)
         \/ SendRefused
         \/ \E t, u \in Txs : CancelPrepare(t, u)
         \/ \E u \in Txs : CancelForeign(u)
         \/ Submits
         \/ SubmitFails
         \/ Confirms
         \/ ChainRuns
<1> USE DEF Quiet, vars, clientVars, watchSpecVars, tellVars
<1>1. ASSUME NEW t \in Txs, GoWatch(t) \/ GoResult(t) \/ GoForget(t) PROVE Quiet
  BY <1>1 DEF GoWatch, GoResult, GoForget, Register
<1>2. ASSUME NEW c \in Callers, NEW t \in Txs, CallLookUp(c, t) PROVE Quiet
  BY <1>2 DEF CallLookUp
<1>3. ASSUME NEW c \in Callers, CallWatch(c) \/ CallResult(c) \/ CallCtxDone(c) PROVE Quiet
  BY <1>3 DEF CallWatch, CallResult, CallCtxDone, Register
<1>4. CASE MonitorRuns
  <2>1. ASSUME NEW t \in Txs, NEW W \in SUBSET Waiters, Tell(t, W) PROVE Quiet
    BY <1>4, <2>1 DEF MonitorRuns, Tell
  <2>2. ASSUME NEW W \in SUBSET Waiters, TellClosed(W) PROVE Quiet
    BY <1>4, <2>2 DEF MonitorRuns, TellClosed
  <2>3. CASE CloseWatch
    BY <1>4, <2>3 DEF MonitorRuns, CloseWatch
  <2>4. CASE Confirm
    BY <1>4, <2>4 DEF MonitorRuns, Confirms
  <2> QED
    BY <1>4, <2>1, <2>2, <2>3, <2>4 DEF MonitorRuns, WatchStep
<1>5. CASE UNCHANGED vars
  BY <1>5
<1> QED
  BY <1>1, <1>2, <1>3, <1>4, <1>5 DEF Next, ClientStep, Submits

\* What a submission does to the pool and to the nonces.
LEMMA SubmitEffect ==
  ASSUME TypeOK, Submits
  PROVE  /\ mtx # None /\ mtx.tx \in Txs /\ mtx.nonce \in Nonces
         /\ mtx.nonce >= chainNonce
         /\ txNonce[mtx.tx] = None
         /\ txNonce' = [txNonce EXCEPT ![mtx.tx] = mtx.nonce]
         /\ pool' = {u \in pool : txNonce[u] # mtx.nonce} \cup {mtx.tx}
         /\ nonce' \in {nonce, nonce + 1} /\ (mtx.op # "send" => nonce' = nonce)
         /\ fromSend' = fromSend \cup BySend
         /\ foreign \subseteq foreign'
         /\ mtx.op = "foreign" => mtx.nonce \in foreign'
         /\ mtx' = None
         /\ UNCHANGED <<dropped, mined, chainNonce, lastConfirmedNonce>>
<1> USE MaxNonceAssumption
    DEF TypeOK, WatchTypeOK, ChainTypeOK, Submission, Nonces
<1>1. CASE SubmitOK
  BY <1>1 DEF SubmitOK, Taken, Submit, BySend, tellVars
<1>2. CASE SubmitLost
  BY <1>2 DEF SubmitLost, Taken, Submit, BySend, tellVars
<1> QED
  BY <1>1, <1>2 DEF Submits

\* Every action keeps Behind.
LEMMA BehindStep == TypeOK /\ Behind /\ [Next]_vars => Behind'
<1> SUFFICES ASSUME TypeOK, Behind, [Next]_vars PROVE Behind'
  OBVIOUS
<1> USE MaxNonceAssumption, ChainNoneAssumption
    DEF TypeOK, WatchTypeOK, ChainTypeOK, Nonces, Behind, Known, chainVars, history
<1>1. CASE Quiet
  BY <1>1 DEF Quiet
<1>2. ASSUME NEW t \in Txs, SendPrepare(t) PROVE Behind'
  BY <1>2 DEF SendPrepare, watchSpecVars, tellVars
<1>3. CASE SendRefused \/ SubmitFails
  BY <1>3 DEF SendRefused, SubmitFails, watchSpecVars, tellVars
<1>4. ASSUME NEW t \in Txs, NEW u \in Txs, CancelPrepare(t, u) PROVE Behind'
  BY <1>4 DEF CancelPrepare, watchSpecVars, tellVars
<1>8. ASSUME NEW u \in Txs, CancelForeign(u) PROVE Behind'
  BY <1>8 DEF CancelForeign, watchSpecVars, tellVars
<1>5. CASE Submits
  <2>1. \A x \in (pool \cup fromSend) \cup {mtx.tx} : txNonce'[x] # None
    BY <1>5, SubmitEffect
  <2> QED
    BY <1>5, <2>1, SubmitEffect DEF BySend
<1>6. CASE Confirms
  BY <1>6 DEF Confirms, Confirm, clientVars
<1>7. CASE ChainRuns
  <2>1. CASE MineExternal
    BY <1>7, <2>1 DEF ChainRuns, ChainMoves, MineExternal, clientVars, tellVars
  <2>2. ASSUME NEW t \in Txs, MineTx(t) PROVE Behind'
    BY <1>7, <2>2 DEF ChainRuns, ChainMoves, MineTx, clientVars, tellVars
  <2>3. ASSUME NEW t \in Txs, DropTx(t) PROVE Behind'
    BY <1>7, <2>3 DEF ChainRuns, ChainMoves, DropTx, clientVars, tellVars
  <2> QED
    BY <1>7, <2>1, <2>2, <2>3 DEF ChainRuns, ChainMoves, Block
<1> QED
  BY <1>1, <1>2, <1>3, <1>4, <1>5, <1>6, <1>7, <1>8, StepKinds

\* Every action keeps Window: allowNonce is asked when the nonce is chosen, a
\* cancellation reuses a nonce that is inside, and lastConfirmedNonce only grows.
LEMMA WindowStep == TypeOK /\ Behind /\ Window /\ [Next]_vars => Window'
<1> SUFFICES ASSUME TypeOK, Behind, Window, [Next]_vars PROVE Window'
  OBVIOUS
<1> USE MaxNonceAssumption, MaxSentAssumption, ChainNoneAssumption
    DEF TypeOK, WatchTypeOK, ChainTypeOK, Nonces, Window, InWindow, chainVars, history
<1>1. CASE Quiet
  BY <1>1 DEF Quiet
<1>2. ASSUME NEW t \in Txs, SendPrepare(t) PROVE Window'
  BY <1>2 DEF SendPrepare, allowNonce, watchSpecVars, tellVars
<1>3. CASE SendRefused
  BY <1>3 DEF SendRefused, watchSpecVars, tellVars
<1>4. ASSUME NEW t \in Txs, NEW u \in Txs, CancelPrepare(t, u) PROVE Window'
  BY <1>4 DEF CancelPrepare, watchSpecVars, tellVars
<1>9. ASSUME NEW u \in Txs, CancelForeign(u) PROVE Window'
  BY <1>9 DEF CancelForeign, watchSpecVars, tellVars
<1>5. CASE Submits
  BY <1>5, SubmitEffect
<1>6. CASE SubmitFails
  BY <1>6 DEF SubmitFails, watchSpecVars, tellVars
<1>7. CASE Confirms
  <2>1. lastConfirmedNonce' >= lastConfirmedNonce /\ lastConfirmedNonce' \in Nat
    BY <1>7 DEF Confirms, Confirm
  <2>2. pool' = pool /\ txNonce' = txNonce /\ mtx' = mtx /\ foreign' = foreign
    BY <1>7 DEF Confirms, Confirm, clientVars
  <2> QED
    BY <2>1, <2>2 DEF Behind, Known, Submission
<1>8. CASE ChainRuns
  <2>1. pool' \subseteq pool /\ UNCHANGED <<txNonce, mtx, lastConfirmedNonce, foreign>>
    BY <1>8 DEF ChainRuns, ChainMoves, Block, MineExternal, MineTx, DropTx, clientVars, tellVars
  <2> QED
    BY <2>1
<1> QED
  BY <1>1, <1>2, <1>3, <1>4, <1>5, <1>6, <1>7, <1>8, <1>9, StepKinds

-----------------------------------------------------------------------------
\* While nothing is dropped, the nonce getNonce answers is the account's pending
\* nonce: c.nonce cannot have run past it.
LEMMA NonceIsFree ==
  ASSUME TypeOK, LocalNext, NEW account \in 0..MaxNonce, PendingNonceAt(account)
  PROVE  /\ getNonce(account) = account /\ localNonce(account) = account
         /\ ~InPool(account)
         /\ \A n \in chainNonce..(account - 1) : InPool(n)
<1> USE MaxNonceAssumption DEF TypeOK, WatchTypeOK, ChainTypeOK
<1>1. ~InPool(account) /\ \A n \in chainNonce..(account - 1) : InPool(n)
  BY DEF PendingNonceAt, InPool
<1>2. account \in Nat /\ account >= chainNonce
  BY DEF PendingNonceAt
<1>3. nonce <= account
  BY <1>1, <1>2 DEF LocalNext
<1> QED
  BY <1>1, <1>2, <1>3 DEF getNonce, localNonce

\* Every action keeps Contiguous.
LEMMA ContiguousStep == TypeOK /\ Behind /\ Contiguous /\ [Next]_vars => Contiguous'
<1> SUFFICES ASSUME TypeOK, Behind, Contiguous, [Next]_vars, dropped' = {}
             PROVE  PoolContiguous' /\ LocalNext' /\ InHandNext' /\ InHandFree'
  BY DEF Contiguous
<1> DEFINE Goal == PoolContiguous' /\ LocalNext' /\ InHandNext' /\ InHandFree'
<1> USE MaxNonceAssumption, ChainNoneAssumption
    DEF TypeOK, WatchTypeOK, ChainTypeOK, Nonces, Submission, chainVars, history
<1>0. dropped = {} => PoolContiguous /\ LocalNext /\ InHandNext /\ InHandFree
  BY DEF Contiguous
<1>1. CASE Quiet
  BY <1>0, <1>1
  DEF Quiet, PoolContiguous, LocalNext, InHandNext, InHandFree, InPool
<1>2. ASSUME NEW t \in Txs, SendPrepare(t) PROVE Goal
  <2>1. PICK account \in 0..MaxNonce :
          /\ PendingNonceAt(account)
          /\ mtx' = [op |-> "send", tx |-> t, nonce |-> getNonce(account)]
          /\ nonce' = localNonce(account)
    BY <1>2 DEF SendPrepare
  <2>2. UNCHANGED <<chainVars, foreign>>
    BY <1>2 DEF SendPrepare, watchSpecVars
  <2>3. PoolContiguous /\ LocalNext
    BY <1>0, <2>2
  <2>4. /\ getNonce(account) = account /\ localNonce(account) = account
        /\ ~InPool(account)
        /\ \A n \in chainNonce..(account - 1) : InPool(n)
    BY <2>1, <2>3, NonceIsFree
  <2>5. PoolContiguous' /\ LocalNext'
    BY <2>1, <2>2, <2>3, <2>4 DEF PoolContiguous, LocalNext, InPool
  <2>6. InHandNext' /\ InHandFree'
    BY <2>1, <2>2, <2>4 DEF InHandNext, InHandFree, InPool
  <2> QED
    BY <2>5, <2>6
<1>3. CASE SendRefused
  <2>1. PICK account \in 0..MaxNonce :
          PendingNonceAt(account) /\ nonce' = localNonce(account)
    BY <1>3 DEF SendRefused
  <2>2. UNCHANGED <<chainVars, foreign>> /\ mtx = None /\ mtx' = None
    BY <1>3 DEF SendRefused, watchSpecVars
  <2>3. PoolContiguous /\ LocalNext
    BY <1>0, <2>2
  <2>4. nonce' = account /\ \A n \in chainNonce..(account - 1) : InPool(n)
    BY <2>1, <2>3, NonceIsFree
  <2> QED
    BY <2>2, <2>3, <2>4 DEF PoolContiguous, LocalNext, InHandNext, InHandFree, InPool
<1>4. ASSUME NEW t \in Txs, NEW u \in Txs, CancelPrepare(t, u) PROVE Goal
  <2>1. UNCHANGED <<chainVars, nonce, foreign>> /\ t \in pool
    BY <1>4 DEF CancelPrepare, watchSpecVars
  <2>2. mtx' = [op |-> "cancel", tx |-> u, nonce |-> txNonce[t]]
    BY <1>4 DEF CancelPrepare
  <2>3. txNonce[t] \in Nonces
    BY <2>1 DEF Behind, Known
  <2>4. PoolContiguous /\ LocalNext
    BY <1>0, <2>1
  <2>5. PoolContiguous' /\ LocalNext'
    BY <2>1, <2>4 DEF PoolContiguous, LocalNext, InPool
  <2>6. InHandNext' /\ InHandFree'
    BY <2>1, <2>2, <2>3, <2>4 DEF PoolContiguous, InHandNext, InHandFree, InPool
  <2> QED
    BY <2>5, <2>6
<1>9. ASSUME NEW u \in Txs, CancelForeign(u) PROVE Goal
  <2>1. UNCHANGED <<chainVars, nonce, foreign>> /\ mtx'.op = "foreign"
    BY <1>9 DEF CancelForeign, watchSpecVars
  <2> QED
    BY <1>0, <2>1 DEF PoolContiguous, LocalNext, InHandNext, InHandFree, InPool
<1>5. CASE Submits
  <2>1. PoolContiguous /\ LocalNext /\ InHandNext /\ InHandFree
    BY <1>0, <1>5, SubmitEffect
  <2>2. StaysIn(mtx.nonce)
    BY <1>5, SubmitEffect DEF StaysIn
  <2>3. ASSUME NEW n \in Nat, InPool(n) PROVE StaysIn(n)
    <3>1. PICK u \in pool : txNonce[u] = n
      BY <2>3 DEF InPool
    <3>2. CASE n # mtx.nonce
      <4>1. u # mtx.tx
        BY <1>5, <3>1, SubmitEffect DEF Behind, Known
      <4>2. u \in pool' /\ txNonce'[u] = n
        BY <1>5, <3>1, <3>2, <4>1, SubmitEffect
      <4> QED
        BY <4>2 DEF StaysIn
    <3> QED
      BY <2>2, <3>2
  <2>4. \/ mtx.op = "foreign"
        \/ mtx.op = "cancel" /\ mtx.nonce \in foreign
        \/ \A n \in chainNonce..mtx.nonce : StaysIn(n)
    BY <1>5, <2>1, <2>2, <2>3, SubmitEffect DEF InHandNext
  <2>5. PoolContiguous'
    <3> SUFFICES ASSUME NEW u \in pool', txNonce'[u] \notin foreign',
                        NEW n \in chainNonce..txNonce'[u]
                 PROVE  StaysIn(n)
      BY <1>5, SubmitEffect DEF PoolContiguous, InPool, StaysIn
    <3>1. CASE u = mtx.tx
      BY <1>5, <2>4, <3>1, SubmitEffect
    <3>2. CASE u # mtx.tx
      <4>1. u \in pool /\ txNonce'[u] = txNonce[u]
        BY <1>5, <3>2, SubmitEffect
      <4>2. InPool(n)
        BY <1>5, <2>1, <4>1, SubmitEffect DEF PoolContiguous
      <4>3. n \in Nat
        OBVIOUS
      <4> QED
        BY <2>3, <4>2, <4>3
    <3> QED
      BY <3>1, <3>2
  <2>6. LocalNext'
    <3>1. \A n \in chainNonce..(nonce - 1) : StaysIn(n)
      BY <2>1, <2>3 DEF LocalNext
    <3>2. CASE mtx.op = "send"
      <4>1. nonce <= mtx.nonce
        BY <1>5, <2>1, <3>2, SubmitEffect DEF InHandFree
      <4> QED
        BY <1>5, <2>4, <3>1, <4>1, SubmitEffect DEF LocalNext, InPool, StaysIn
    <3>3. CASE mtx.op # "send"
      BY <1>5, <3>1, <3>3, SubmitEffect DEF LocalNext, InPool, StaysIn
    <3> QED
      BY <3>2, <3>3
  <2> QED
    BY <1>5, <2>5, <2>6, SubmitEffect DEF InHandNext, InHandFree
<1>6. CASE SubmitFails
  BY <1>0, <1>6
  DEF SubmitFails, watchSpecVars, PoolContiguous, LocalNext, InHandNext, InHandFree, InPool
<1>7. CASE Confirms
  BY <1>0, <1>7
  DEF Confirms, Confirm, clientVars, PoolContiguous, LocalNext, InHandNext, InHandFree, InPool
<1>8. CASE ChainRuns
  <2>1. CASE Block
    <3>1. /\ chainNonce' = chainNonce + 1 /\ pool' \subseteq pool
          /\ \A u \in pool \ pool' : txNonce[u] = chainNonce
          /\ UNCHANGED <<txNonce, dropped>>
      BY <2>1 DEF Block, MineExternal, MineTx
    <3>2. UNCHANGED <<nonce, mtx, foreign>>
      BY <1>8 DEF ChainRuns, clientVars
    <3>3. PoolContiguous /\ LocalNext /\ InHandNext /\ InHandFree
      BY <1>0, <3>1
    <3>4. \A n \in Nat : n >= chainNonce' /\ InPool(n) => StaysIn(n)
      BY <3>1 DEF InPool, StaysIn
    <3>5. \A n : StaysIn(n) => InPool(n)
      BY <3>1 DEF InPool, StaysIn
    <3>6. PoolContiguous'
      BY <3>1, <3>2, <3>3, <3>4 DEF PoolContiguous, Behind, Known, InPool, StaysIn
    <3>7. LocalNext' /\ InHandNext'
      <4>1. \A n \in chainNonce'..(nonce' - 1) : StaysIn(n)
        BY <3>1, <3>2, <3>3, <3>4 DEF LocalNext
      <4>2. mtx' # None =>
              \/ mtx'.op = "foreign"
              \/ mtx'.op = "cancel" /\ mtx'.nonce \in foreign'
              \/ \A n \in chainNonce'..(mtx'.nonce - 1) : StaysIn(n)
        BY <3>1, <3>2, <3>3, <3>4 DEF InHandNext
      <4> QED
        BY <4>1, <4>2 DEF LocalNext, InHandNext, InPool, StaysIn
    <3>8. InHandFree'
      BY <3>2, <3>3, <3>5 DEF InHandFree, InPool, StaysIn
    <3> QED
      BY <3>6, <3>7, <3>8
  <2>2. ASSUME NEW t \in Txs, DropTx(t) PROVE FALSE
    BY <2>2 DEF DropTx
  <2> QED
    BY <1>8, <2>1, <2>2 DEF ChainRuns, ChainMoves
<1> QED
  BY <1>1, <1>2, <1>3, <1>4, <1>5, <1>6, <1>7, <1>8, <1>9, StepKinds

\* Every action keeps OnlyCancelReplaces.
LEMMA ReplaceStep ==
  TypeOK /\ Behind /\ Contiguous /\ OnlyCancelReplaces /\ [Next]_vars => OnlyCancelReplaces'
<1> SUFFICES ASSUME TypeOK, Behind, Contiguous, OnlyCancelReplaces, [Next]_vars,
                    dropped' = {}, NEW x \in fromSend'
             PROVE  \/ x \in pool'
                    \/ Settled(x)'
                    \/ \E u \in Txs \ fromSend' : Known(u)' /\ txNonce'[u] = txNonce'[x]
  BY DEF OnlyCancelReplaces
<1> DEFINE Accounted == \/ x \in pool
                        \/ Settled(x)
                        \/ \E u \in Txs \ fromSend : Known(u) /\ txNonce[u] = txNonce[x]
<1> USE MaxNonceAssumption, ChainNoneAssumption
    DEF TypeOK, WatchTypeOK, ChainTypeOK, Nonces, Submission, Known, Settled
<1>0. dropped = {} /\ x \in fromSend => Accounted
  BY DEF OnlyCancelReplaces
<1>1. CASE UNCHANGED <<chainVars, fromSend>>
  BY <1>0, <1>1 DEF chainVars
<1>2. CASE Submits
  <2>1. dropped = {} /\ fromSend' = fromSend \cup BySend
    BY <1>2, SubmitEffect
  <2>2. CASE x = mtx.tx
    BY <1>2, <2>2, SubmitEffect
  <2>3. CASE x # mtx.tx
    <3>1. x \in fromSend /\ Accounted
      BY <1>0, <2>1, <2>3 DEF BySend
    <3>2. txNonce'[x] = txNonce[x] /\ chainNonce' = chainNonce
      BY <1>2, <2>3, <3>1, SubmitEffect
    <3>3. mtx.tx \notin fromSend
      BY <1>2, SubmitEffect DEF Behind
    <3>4. CASE x \in pool /\ txNonce[x] # mtx.nonce
      BY <1>2, <3>4, SubmitEffect
    <3>5. CASE x \in pool /\ txNonce[x] = mtx.nonce
      <4>1. mtx # None /\ mtx.op # "send"
        BY <1>2, <2>1, <3>5, SubmitEffect DEF Contiguous, InHandFree, InPool
      <4>2. mtx.tx \in Txs \ fromSend'
        BY <1>2, <2>1, <3>3, <4>1, SubmitEffect DEF BySend
      <4>3. txNonce'[mtx.tx] = mtx.nonce /\ mtx.nonce # None
        BY <1>2, SubmitEffect
      <4> QED
        BY <3>2, <3>5, <4>2, <4>3
    <3>6. CASE Settled(x)
      BY <3>2, <3>6
    <3>7. ASSUME NEW u \in Txs \ fromSend, Known(u), txNonce[u] = txNonce[x]
          PROVE  \E v \in Txs \ fromSend' : Known(v)' /\ txNonce'[v] = txNonce'[x]
      <4>1. u # mtx.tx
        BY <1>2, <3>7, SubmitEffect
      <4>2. u \in Txs \ fromSend' /\ txNonce'[u] = txNonce[u]
        BY <1>2, <2>1, <4>1, SubmitEffect DEF BySend
      <4> QED
        BY <3>2, <3>7, <4>2
    <3> QED
      BY <3>1, <3>4, <3>5, <3>6, <3>7
  <2> QED
    BY <2>2, <2>3
<1>3. CASE ChainRuns
  <2>1. fromSend' = fromSend
    BY <1>3 DEF ChainRuns, clientVars, history
  <2>2. CASE Block
    <3>1. /\ chainNonce' = chainNonce + 1
          /\ \A u \in pool \ pool' : txNonce[u] = chainNonce
          /\ UNCHANGED <<txNonce, dropped>>
      BY <2>2 DEF Block, MineExternal, MineTx
    <3>2. Accounted
      BY <1>0, <2>1, <3>1
    <3> QED
      BY <2>1, <3>1, <3>2 DEF Behind
  <2>3. ASSUME NEW t \in Txs, DropTx(t) PROVE FALSE
    BY <2>3 DEF DropTx
  <2> QED
    BY <1>3, <2>2, <2>3 DEF ChainRuns, ChainMoves
<1>4. \/ UNCHANGED <<chainVars, fromSend>> \/ Submits \/ ChainRuns
  BY StepKinds DEF Quiet, SendPrepare, SendRefused, CancelPrepare, SubmitFails,
                   CancelForeign, Confirms, Confirm, watchSpecVars, clientVars, history
<1> QED
  BY <1>1, <1>2, <1>3, <1>4

-----------------------------------------------------------------------------
\* IInv is an invariant of the client.
THEOREM Invariance == Spec => []IInv
<1>1. Init => IInv
  BY InitIInv
<1>2. IInv /\ [Next]_vars => IInv'
  BY TypeStep, BehindStep, WindowStep, ContiguousStep, ReplaceStep DEF IInv
<1> QED
  BY <1>1, <1>2, PTL DEF Spec

\* The types hold, whatever the numbers of transactions, waiters and nonces.
THEOREM TypeCorrect == Spec => []TypeOK
<1>1. IInv => TypeOK
  BY DEF IInv
<1> QED
  BY <1>1, Invariance, PTL

\* allowNonce, asked with a stale lastConfirmedNonce and only by Send, keeps every
\* nonce in flight within maxSentTxs of the account's nonce, but for those that
\* CancelTx took from other senders.
THEOREM WindowKept == Spec => []PoolWindow
<1>1. IInv => PoolWindow
  <2> SUFFICES ASSUME IInv, NEW t \in pool, txNonce[t] \notin foreign
               PROVE  txNonce[t] <= chainNonce + maxSentTxs
    BY DEF PoolWindow
  <2>1. txNonce[t] \in Nonces /\ chainNonce \in Nat /\ lastConfirmedNonce \in Nat
    BY MaxNonceAssumption
    DEF IInv, TypeOK, WatchTypeOK, ChainTypeOK, Behind, Known, Nonces
  <2>2. txNonce[t] <= lastConfirmedNonce + maxSentTxs /\ lastConfirmedNonce <= chainNonce
    BY DEF IInv, Behind, Window, InWindow
  <2> QED
    BY <2>1, <2>2, MaxSentAssumption, MaxNonceAssumption DEF Nonces
<1> QED
  BY <1>1, Invariance, PTL

\* Send never displaces a transaction of Send.
THEOREM CancelOnly == Spec => []OnlyCancelReplaces
<1>1. IInv => OnlyCancelReplaces
  BY DEF IInv
<1> QED
  BY <1>1, Invariance, PTL

\* No transaction waits behind a nonce nobody has sent, but for one whose nonce
\* CancelTx took from another sender.
THEOREM GapFree == Spec => []NoNonceGap
<1>1. IInv => NoNonceGap
  BY DEF IInv, Contiguous, PoolContiguous, InPool, NoNonceGap
<1> QED
  BY <1>1, Invariance, PTL
=============================================================================
