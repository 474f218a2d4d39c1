------------------------- MODULE ProviderBidsProofs -------------------------
(***************************************************************************)
(* The safety properties of ProviderBids for any number of handlers,       *)
(* digests, streams and decisions.  None of them is inductive alone; IInv  *)
(* adds who may hold a callback (the map, one stream, or nobody) and what  *)
(* a decision that has left its stream may be used for.                    *)
(***************************************************************************)
EXTENDS ProviderBids, TLAPS

Holds(s) == respPc[s] = "callback"

\* A callback in the map belongs to a handler of that digest whose channel is
\* unused, and no stream holds it.
MapOwned ==
  \A d \in Digests : bidsInProcess[d] # None =>
    /\ digest[bidsInProcess[d]] = d
    /\ respC[bidsInProcess[d]] = None
    /\ \A s \in Responders : Holds(s) => callback[s] # bidsInProcess[d]

\* A handler that has not registered owns no callback anywhere.
Unregistered ==
  /\ \A h \in Handlers : pc[h] = "idle" => digest[h] = None
  /\ \A h \in Handlers : pc[h] \in {"idle", "register"} =>
       /\ respC[h] = None
       /\ h \notin stored
       /\ \A d \in Digests : bidsInProcess[d] # h
       /\ \A s \in Responders : Holds(s) => callback[s] # h

\* What a stream holds: its own callback and its own decision, for that
\* handler's digest, which the provider's software has seen.
StreamHolds ==
  \A s \in Responders : Holds(s) =>
    /\ respC[callback[s]] = None
    /\ decision[respMsg[s]] # None
    /\ decision[respMsg[s]].digest = digest[callback[s]]
    /\ digest[callback[s]] \in delivered
    /\ \A h \in Handlers : respC[h] # respMsg[s]

StreamsDistinct ==
  \A s, t \in Responders : Holds(s) /\ Holds(t) /\ s # t =>
    callback[s] # callback[t] /\ respMsg[s] # respMsg[t]

\* A status in a response channel is a decision on the handler's own digest,
\* and no other channel carries that decision.
ChannelOwned ==
  \A h \in Handlers : respC[h] # None =>
    /\ decision[respC[h]] # None
    /\ decision[respC[h]].digest = digest[h]
    /\ digest[h] \in delivered
    /\ \A g \in Handlers : respC[g] = respC[h] => g = h

Accepted(h) == respC[h] # None /\ decision[respC[h]].status = "ACCEPTED"

\* How far a handler got tells what it has in hand.
Progress ==
  \A h \in Handlers :
    /\ pc[h] \notin {"idle", "err"} => digest[h] \in SignedBids
    /\ pc[h] \in {"store", "write", "ok"} => Accepted(h)
    /\ pc[h] \in {"write", "ok"} => h \in stored
    /\ h \in sent => pc[h] \in {"ok", "err"}
    /\ h \in stored => Accepted(h) /\ digest[h] \in SignedBids
    /\ h \in sent => h \in stored

IInv ==
  /\ TypeOK
  /\ MapOwned
  /\ Unregistered
  /\ StreamHolds
  /\ StreamsDistinct
  /\ ChannelOwned
  /\ Progress
  /\ WaitingIsReachable

-----------------------------------------------------------------------------
(***************************************************************************)
(* The invariant holds initially and is kept by every action.              *)
(***************************************************************************)

\* Before any stream is open and any bid is read, nobody holds anything.
LEMMA InitIInv == Init => IInv
  BY NoneAssumption, SignedAssumption
  DEF Init, IInv, TypeOK, HandlerPc, MapOwned, Unregistered, StreamHolds, StreamsDistinct,
      ChannelOwned, Progress, WaitingIsReachable, Holds, Accepted

\* Every action keeps the types; a looked-up callback is never nil.
LEMMA TypeStep == TypeOK /\ [Next]_vars => TypeOK'
<1> SUFFICES ASSUME TypeOK, [Next]_vars PROVE TypeOK'
  OBVIOUS
<1> USE NoneAssumption, SignedAssumption DEF TypeOK, HandlerPc, BidResponse, Status, apiVars
<1>1. ASSUME NEW h \in Handlers, AdmitBid(h) PROVE TypeOK'
  BY <1>1 DEF AdmitBid
<1>2. ASSUME NEW h \in Handlers, RefuseBid(h) PROVE TypeOK'
  BY <1>2 DEF RefuseBid
<1>3. ASSUME NEW h \in Handlers, CtxDone(h) PROVE TypeOK'
  BY <1>3 DEF CtxDone
<1>4. ASSUME NEW h \in Handlers, RegisterCallback(h) PROVE TypeOK'
  BY <1>4 DEF RegisterCallback
<1>5. ASSUME NEW h \in Handlers, OfferTimeout(h) PROVE TypeOK'
  BY <1>5 DEF OfferTimeout
<1>6. ASSUME NEW h \in Handlers, NEW r \in Receivers, HandOver(h, r) PROVE TypeOK'
  BY <1>6 DEF HandOver
<1>7. ASSUME NEW h \in Handlers, AwaitTimeout(h) PROVE TypeOK'
  BY <1>7 DEF AwaitTimeout
<1>8. ASSUME NEW h \in Handlers, TakeStatus(h) PROVE TypeOK'
  BY <1>8 DEF TakeStatus
<1>9. ASSUME NEW h \in Handlers, StoreCommitment(h) PROVE TypeOK'
  BY <1>9 DEF StoreCommitment
<1>10. ASSUME NEW h \in Handlers, StoreFails(h) PROVE TypeOK'
  BY <1>10 DEF StoreFails
<1>11. ASSUME NEW h \in Handlers, WritePreconf(h) PROVE TypeOK'
  BY <1>11 DEF WritePreconf
<1>12. ASSUME NEW h \in Handlers, WriteFails(h) PROVE TypeOK'
  BY <1>12 DEF WriteFails
<1>13. ASSUME NEW r \in Receivers, OpenReceive(r) PROVE TypeOK'
  BY <1>13 DEF OpenReceive
<1>14. ASSUME NEW r \in Receivers, SendBidToProvider(r) PROVE TypeOK'
  BY <1>14 DEF SendBidToProvider
<1>15. ASSUME NEW r \in Receivers, ReceiveEnds(r) PROVE TypeOK'
  BY <1>15 DEF ReceiveEnds
<1>16. ASSUME NEW r \in Receivers, SendToProviderFails(r) PROVE TypeOK'
  BY <1>16 DEF SendToProviderFails
<1>17. ASSUME NEW s \in Responders, OpenRespond(s) PROVE TypeOK'
  BY <1>17 DEF OpenRespond
<1>18. ASSUME NEW s \in Responders, RespondEnds(s) PROVE TypeOK'
  BY <1>18 DEF RespondEnds
<1>19. ASSUME NEW s \in Responders, NEW i \in Decisions, LookUpCallback(s, i) PROVE TypeOK'
  BY <1>19 DEF LookUpCallback
<1>20. ASSUME NEW s \in Responders, NEW i \in Decisions, DropResponse(s, i) PROVE TypeOK'
  BY <1>20 DEF DropResponse
<1>21. ASSUME NEW s \in Responders, RunCallback(s) PROVE TypeOK'
  BY <1>21 DEF RunCallback
<1>22. CASE UNCHANGED vars
  BY <1>22 DEF vars
<1> QED
  BY <1>1, <1>2, <1>3, <1>4, <1>5, <1>6, <1>7, <1>8, <1>9, <1>10, <1>11, <1>12, <1>13, <1>14, <1>15, <1>16, <1>17, <1>18, <1>19, <1>20, <1>21, <1>22 DEF Next, HandlerStep, ReceiverStep, ResponderStep

\* A handler step that leaves the map, the channels and the decisions alone.
LEMMA LocalStepsKeep ==
  ASSUME IInv, TypeOK', NEW h \in Handlers,
         RefuseBid(h) \/ CtxDone(h) \/ AwaitTimeout(h) \/ TakeStatus(h) \/ StoreCommitment(h) \/ StoreFails(h) \/ WritePreconf(h) \/ WriteFails(h) \/ \E r \in Receivers : HandOver(h, r)
  PROVE  IInv'
<1> USE NoneAssumption DEF IInv, TypeOK, Holds, apiVars, RefuseBid, CtxDone, AwaitTimeout, TakeStatus, StoreCommitment, StoreFails, WritePreconf, WriteFails, HandOver
<1>1. MapOwned'
  BY DEF MapOwned
<1>2. Unregistered'
  BY DEF Unregistered
<1>3. StreamHolds'
  BY DEF StreamHolds
<1>4. StreamsDistinct'
  BY DEF StreamsDistinct
<1>5. ChannelOwned'
  BY DEF ChannelOwned
<1>6. Progress'
  BY DEF Progress, Accepted, ChannelOwned, BidResponse
<1>7. WaitingIsReachable'
  BY DEF WaitingIsReachable
<1> QED
  BY <1>1, <1>2, <1>3, <1>4, <1>5, <1>6, <1>7

\* A bid is admitted by a handler that owns nothing yet.
LEMMA AdmitBidKeep ==
  ASSUME IInv, TypeOK', NEW h \in Handlers,
         AdmitBid(h)
  PROVE  IInv'
<1> USE NoneAssumption DEF IInv, TypeOK, Holds, apiVars, AdmitBid
<1>1. MapOwned'
  BY DEF MapOwned, Unregistered
<1>2. Unregistered'
  BY DEF Unregistered
<1>3. StreamHolds'
  BY DEF StreamHolds, Unregistered
<1>4. StreamsDistinct'
  BY DEF StreamsDistinct
<1>5. ChannelOwned'
  BY DEF ChannelOwned, Unregistered
<1>6. Progress'
  BY DEF Progress, Accepted
<1>7. WaitingIsReachable'
  BY DEF WaitingIsReachable, Unregistered
<1> QED
  BY <1>1, <1>2, <1>3, <1>4, <1>5, <1>6, <1>7

\* Registering overwrites the entry of the digest with a fresh callback.
LEMMA RegisterCallbackKeep ==
  ASSUME IInv, TypeOK', NEW h \in Handlers,
         RegisterCallback(h)
  PROVE  IInv'
<1> USE NoneAssumption DEF IInv, TypeOK, Holds, apiVars, RegisterCallback
<1>1. MapOwned'
  BY DEF MapOwned, Unregistered
<1>2. Unregistered'
  BY DEF Unregistered
<1>3. StreamHolds'
  BY DEF StreamHolds
<1>4. StreamsDistinct'
  BY DEF StreamsDistinct
<1>5. ChannelOwned'
  BY DEF ChannelOwned
<1>6. Progress'
  BY DEF Progress, Accepted
<1>7. WaitingIsReachable'
  BY DEF WaitingIsReachable
<1> QED
  BY <1>1, <1>2, <1>3, <1>4, <1>5, <1>6, <1>7

\* The timeout in ProcessBid only removes an entry.
LEMMA OfferTimeoutKeep ==
  ASSUME IInv, TypeOK', NEW h \in Handlers,
         OfferTimeout(h)
  PROVE  IInv'
<1> USE NoneAssumption DEF IInv, TypeOK, Holds, apiVars, OfferTimeout
<1>1. MapOwned'
  BY DEF MapOwned
<1>2. Unregistered'
  BY DEF Unregistered
<1>3. StreamHolds'
  BY DEF StreamHolds
<1>4. StreamsDistinct'
  BY DEF StreamsDistinct
<1>5. ChannelOwned'
  BY DEF ChannelOwned
<1>6. Progress'
  BY DEF Progress, Accepted
<1>7. WaitingIsReachable'
  BY DEF WaitingIsReachable
<1> QED
  BY <1>1, <1>2, <1>3, <1>4, <1>5, <1>6, <1>7

\* ReceiveBids only adds to what the provider's software has seen.
LEMMA ReceiverStepsKeep ==
  ASSUME IInv, TypeOK', NEW r \in Receivers,
         ReceiverStep(r)
  PROVE  IInv'
<1> USE NoneAssumption DEF IInv, TypeOK, Holds, apiVars, ReceiverStep, OpenReceive, SendBidToProvider, ReceiveEnds, SendToProviderFails
<1>1. MapOwned'
  BY DEF MapOwned
<1>2. Unregistered'
  BY DEF Unregistered
<1>3. StreamHolds'
  BY DEF StreamHolds
<1>4. StreamsDistinct'
  BY DEF StreamsDistinct
<1>5. ChannelOwned'
  BY DEF ChannelOwned
<1>6. Progress'
  BY DEF Progress, Accepted
<1>7. WaitingIsReachable'
  BY DEF WaitingIsReachable
<1> QED
  BY <1>1, <1>2, <1>3, <1>4, <1>5, <1>6, <1>7

\* A SendProcessedBids stream opens or ends without a callback in hand.
LEMMA RespondOpenEndKeep ==
  ASSUME IInv, TypeOK', NEW s \in Responders,
         OpenRespond(s) \/ RespondEnds(s)
  PROVE  IInv'
<1> USE NoneAssumption DEF IInv, TypeOK, Holds, apiVars, OpenRespond, RespondEnds
<1>1. MapOwned'
  BY DEF MapOwned
<1>2. Unregistered'
  BY DEF Unregistered
<1>3. StreamHolds'
  BY DEF StreamHolds
<1>4. StreamsDistinct'
  BY DEF StreamsDistinct
<1>5. ChannelOwned'
  BY DEF ChannelOwned
<1>6. Progress'
  BY DEF Progress, Accepted
<1>7. WaitingIsReachable'
  BY DEF WaitingIsReachable
<1> QED
  BY <1>1, <1>2, <1>3, <1>4, <1>5, <1>6, <1>7

\* The lookup moves the callback from the map to the stream.
LEMMA LookUpCallbackKeep ==
  ASSUME IInv, TypeOK', NEW s \in Responders, NEW i \in Decisions,
         LookUpCallback(s, i)
  PROVE  IInv'
<1> USE NoneAssumption DEF IInv, TypeOK, Holds, apiVars, LookUpCallback
<1>1. MapOwned'
  BY DEF MapOwned
<1>2. Unregistered'
  BY DEF Unregistered
<1>3. StreamHolds'
  <2> SUFFICES ASSUME NEW t \in Responders, Holds(t)'
               PROVE  /\ respC[callback'[t]] = None
                      /\ decision'[respMsg'[t]] # None
                      /\ decision'[respMsg'[t]].digest = digest[callback'[t]]
                      /\ digest[callback'[t]] \in delivered
                      /\ \A h \in Handlers : respC[h] # respMsg'[t]
    BY DEF StreamHolds
  <2>1. PICK d \in delivered, st \in Status :
          /\ bidsInProcess[d] # None
          /\ decision' = [decision EXCEPT ![i] = [digest |-> d, status |-> st]]
          /\ callback' = [callback EXCEPT ![s] = bidsInProcess[d]]
    OBVIOUS
  <2>2. [digest |-> d, status |-> st] # None
    BY DEF Status
  <2>3. CASE t = s
    BY <2>1, <2>2, <2>3 DEF MapOwned, ChannelOwned
  <2>4. CASE t # s
    BY <2>1, <2>4 DEF StreamHolds
  <2> QED
    BY <2>3, <2>4
<1>4. StreamsDistinct'
  BY DEF StreamsDistinct, MapOwned, StreamHolds
<1>5. ChannelOwned'
  BY DEF ChannelOwned
<1>6. Progress'
  BY DEF Progress, Accepted, ChannelOwned
<1>7. WaitingIsReachable'
  BY DEF WaitingIsReachable
<1> QED
  BY <1>1, <1>2, <1>3, <1>4, <1>5, <1>6, <1>7

\* A dropped response is a decision nobody uses.
LEMMA DropResponseKeep ==
  ASSUME IInv, TypeOK', NEW s \in Responders, NEW i \in Decisions,
         DropResponse(s, i)
  PROVE  IInv'
<1> USE NoneAssumption DEF IInv, TypeOK, Holds, apiVars, DropResponse
<1>1. MapOwned'
  BY DEF MapOwned
<1>2. Unregistered'
  BY DEF Unregistered
<1>3. StreamHolds'
  BY DEF StreamHolds
<1>4. StreamsDistinct'
  BY DEF StreamsDistinct
<1>5. ChannelOwned'
  BY DEF ChannelOwned
<1>6. Progress'
  BY DEF Progress, Accepted, ChannelOwned
<1>7. WaitingIsReachable'
  BY DEF WaitingIsReachable
<1> QED
  BY <1>1, <1>2, <1>3, <1>4, <1>5, <1>6, <1>7

\* The callback moves the decision from the stream to the channel.
LEMMA RunCallbackKeep ==
  ASSUME IInv, TypeOK', NEW s \in Responders,
         RunCallback(s)
  PROVE  IInv'
<1> USE NoneAssumption DEF IInv, TypeOK, Holds, apiVars, RunCallback
<1>1. MapOwned'
  BY DEF MapOwned
<1>2. Unregistered'
  BY DEF Unregistered
<1>3. StreamHolds'
  BY DEF StreamHolds, StreamsDistinct
<1>4. StreamsDistinct'
  BY DEF StreamsDistinct
<1>5. ChannelOwned'
  BY DEF ChannelOwned, StreamHolds
<1>6. Progress'
  BY DEF Progress, Accepted, StreamHolds
<1>7. WaitingIsReachable'
  BY DEF WaitingIsReachable
<1> QED
  BY <1>1, <1>2, <1>3, <1>4, <1>5, <1>6, <1>7

\* IInv is inductive.
LEMMA IInvStep == IInv /\ [Next]_vars => IInv'
<1> SUFFICES ASSUME IInv, [Next]_vars PROVE IInv'
  OBVIOUS
<1>0. TypeOK'
  BY TypeStep DEF IInv
<1>1. ASSUME NEW h \in Handlers, HandlerStep(h) PROVE IInv'
  BY <1>0, <1>1, LocalStepsKeep, AdmitBidKeep, RegisterCallbackKeep, OfferTimeoutKeep
  DEF HandlerStep
<1>2. ASSUME NEW r \in Receivers, ReceiverStep(r) PROVE IInv'
  BY <1>0, <1>2, ReceiverStepsKeep
<1>3. ASSUME NEW s \in Responders, ResponderStep(s) PROVE IInv'
  BY <1>0, <1>3, RespondOpenEndKeep, LookUpCallbackKeep, DropResponseKeep, RunCallbackKeep
  DEF ResponderStep
<1>4. CASE UNCHANGED vars
  BY <1>4 DEF vars, IInv, TypeOK, MapOwned, Unregistered, StreamHolds, StreamsDistinct,
              ChannelOwned, Progress, WaitingIsReachable, Holds, Accepted
<1> QED
  BY <1>1, <1>2, <1>3, <1>4 DEF Next

-----------------------------------------------------------------------------
(***************************************************************************)
(* The theorems.                                                           *)
(***************************************************************************)

\* Every reachable state satisfies the inductive invariant.
THEOREM Invariance == Spec => []IInv
  BY InitIInv, IInvStep, PTL DEF Spec

\* Type correctness of handlers and API streams: a SendProcessedBids stream never
\* calls a nil callback, ReceiveBids never sends a bid it does not have.
THEOREM TypeCorrect == Spec => []TypeOK
<1>1. IInv => TypeOK
  BY DEF IInv
<1> QED
  BY Invariance, <1>1, PTL

\* Running a callback outside bidsMu is safe: its channel is empty and open and
\* no other stream runs the same callback.
THEOREM CallbackSafety == Spec => []CallbackSafe
<1>1. IInv => CallbackSafe
  BY DEF IInv, StreamHolds, StreamsDistinct, Holds, CallbackSafe
<1> QED
  BY Invariance, <1>1, PTL

\* However often a bid is sent, one BidResponse leads to at most one commitment.
THEOREM OneCommitment == Spec => []OneCommitmentPerDecision
<1>1. IInv => OneCommitmentPerDecision
  BY DEF IInv, TypeOK, ChannelOwned, Progress, Accepted, OneCommitmentPerDecision
<1> QED
  BY Invariance, <1>1, PTL

\* handleBid stores a commitment only for a verified bid that the provider's
\* software received and accepted, and answers the bidder only after that.
THEOREM CommitmentsJustified == Spec => []CommitmentJustified
<1>1. ASSUME IInv, NEW h \in stored
      PROVE  /\ digest[h] \in SignedBids \cap delivered
             /\ respC[h] # None
             /\ decision[respC[h]] = [digest |-> digest[h], status |-> "ACCEPTED"]
  <2>1. h \in Handlers /\ respC[h] \in Decisions /\ decision[respC[h]] \in BidResponse
    BY <1>1 DEF IInv, TypeOK, Progress, Accepted, ChannelOwned
  <2> QED
    BY <1>1, <2>1 DEF IInv, Progress, Accepted, ChannelOwned, BidResponse
<1>2. IInv => CommitmentJustified
  BY <1>1 DEF IInv, TypeOK, Progress, CommitmentJustified
<1> QED
  BY Invariance, <1>2, PTL

\* A handler whose bid nobody else carries never waits on an answer that can no
\* longer reach it.
THEOREM WaitingReachable == Spec => []WaitingIsReachable
<1>1. IInv => WaitingIsReachable
  BY DEF IInv
<1> QED
  BY Invariance, <1>1, PTL

\* A bidder may rely on BidStream: handleBid answers a stream once, and with a
\* preconfirmation only after its commitment went to the chain.
THEOREM HandlersKeepPromise == Spec => BidSpec
<1>1. Init => Bids!StreamInit
  BY DEF Init, Bids!StreamInit, answered
<1>2. IInv /\ [Next]_vars => [Bids!StreamNext]_(Bids!streamVars)
  <2>. SUFFICES ASSUME IInv, [Next]_vars
                PROVE  Bids!StreamNext \/ UNCHANGED Bids!streamVars
    OBVIOUS
  <2>. USE DEF Bids!StreamStep, Bids!streamVars, Bids!Commit, Bids!Answer, Bids!Fail,
               answered, apiVars, IInv, TypeOK, Progress
  <2>1. ASSUME NEW h \in Handlers, HandlerStep(h)
        PROVE  Bids!StreamStep(h) \/ UNCHANGED Bids!streamVars
    <3>1. CASE StoreCommitment(h)
      BY <3>1 DEF StoreCommitment
    <3>2. CASE StoreFails(h)
      BY <3>2 DEF StoreFails
    <3>3. CASE WritePreconf(h)
      BY <3>3 DEF WritePreconf
    <3>4. CASE WriteFails(h)
      BY <3>4 DEF WriteFails
    <3>5. CASE RefuseBid(h) \/ OfferTimeout(h) \/ AwaitTimeout(h) \/ TakeStatus(h)
      <4>1. /\ pc[h] \notin {"ok", "err"}
            /\ pc' \in {[pc EXCEPT ![h] = "err"], [pc EXCEPT ![h] = "store"]}
            /\ stored' = stored /\ sent' = sent
        BY <3>5 DEF RefuseBid, OfferTimeout, AwaitTimeout, TakeStatus
      <4>2. CASE pc' = [pc EXCEPT ![h] = "err"]
        BY <4>1, <4>2
      <4>3. CASE pc' = [pc EXCEPT ![h] = "store"]
        BY <4>1, <4>3
      <4>4. QED
        BY <4>1, <4>2, <4>3
    <3>6. CASE AdmitBid(h) \/ CtxDone(h) \/ RegisterCallback(h)
               \/ \E r \in Receivers : HandOver(h, r)
      BY <3>6 DEF AdmitBid, CtxDone, RegisterCallback, HandOver
    <3>7. QED
      BY <2>1, <3>1, <3>2, <3>3, <3>4, <3>5, <3>6 DEF HandlerStep
  <2>2. CASE UNCHANGED <<pc, stored, sent>>
    BY <2>2
  <2>3. ASSUME NEW r \in Receivers, ReceiverStep(r) PROVE UNCHANGED <<pc, stored, sent>>
    BY <2>3 DEF ReceiverStep, OpenReceive, SendBidToProvider, ReceiveEnds,
                SendToProviderFails
  <2>4. ASSUME NEW s \in Responders, ResponderStep(s)
        PROVE  UNCHANGED <<pc, stored, sent>>
    BY <2>4 DEF ResponderStep, OpenRespond, RespondEnds, LookUpCallback, DropResponse,
                RunCallback
  <2>5. QED
    BY <2>1, <2>2, <2>3, <2>4 DEF Next, vars, Bids!StreamNext
<1>3. QED
  BY <1>1, <1>2, Invariance, PTL DEF Spec, BidSpec, Bids!StreamSpec
=============================================================================
