---------------------------- MODULE ProviderBids ----------------------------
(***************************************************************************)
(* The provider's side of a bid: the stream handler handleBid of           *)
(* pkg/preconfirmation, and the gRPC service of pkg/rpc/provider that puts *)
(* the bid before the provider's own software and brings its decision      *)
(* back.  A handler is the goroutine of one incoming bid stream; several   *)
(* run at once, and two of them may carry the same bid (the digest is a    *)
(* hash of the bid's fields, so a bid sent twice has one digest).          *)
(*                                                                         *)
(* The handlers, the ReceiveBids streams and the SendProcessedBids streams *)
(* meet in two places: the unbuffered channel s.receiver and the map       *)
(* s.bidsInProcess from digests to callbacks.  A callback belongs to the   *)
(* handler that registered it: it sends one status on that handler's       *)
(* response channel (capacity 1) and closes the channel.                   *)
(***************************************************************************)
EXTENDS Naturals

CONSTANTS
  Handlers,     \* goroutines running handleBid, one for each bid stream
  Digests,      \* digests of the bids that arrive
  SignedBids,   \* those whose digest and signature VerifyBid accepts
  Receivers,    \* ReceiveBids streams of the provider's software
  Responders,   \* SendProcessedBids streams of the provider's software
  Decisions,    \* identities of the BidResponse messages it may send
  None          \* no value (a nil entry, an empty channel)

ASSUME SignedAssumption == SignedBids \subseteq Digests
ASSUME NoneAssumption ==
  /\ None \notin Handlers \cup Digests \cup Decisions
  /\ \A d \in Digests, st \in {"ACCEPTED", "REJECTED"} :
       [digest |-> d, status |-> st] # None

VARIABLES
  pc,             \* where each handler is in handleBid
  digest,         \* the digest of the bid a handler read
  ctxDone,        \* the handlers whose ctx is done (5s timer, peer gone)
  bidsInProcess,  \* Service.bidsInProcess: the owner of a digest's callback
  respC,          \* what was sent on a handler's (then closed) respC
  recvPc,         \* where each ReceiveBids stream is
  recvBid,        \* the bid that stream took from s.receiver
  delivered,      \* digests that reached the provider's software
  respPc,         \* where each SendProcessedBids stream is
  respMsg,        \* the decision that stream is working on
  callback,       \* the owner of the callback it looked up
  decision,       \* the content of each BidResponse sent so far
  stored,         \* handlers whose commitment went to the chain
  sent            \* handlers whose preconfirmation went to the bidder

vars == <<pc, digest, ctxDone, bidsInProcess, respC, recvPc, recvBid,
          delivered, respPc, respMsg, callback, decision, stored, sent>>

apiVars == <<recvPc, recvBid, delivered, respPc, respMsg, callback, decision>>

Status == {"ACCEPTED", "REJECTED"}
BidResponse == [digest : Digests, status : Status]

\* A handler's position: before the bid is admitted, inside ProcessBid
\* ("register", "offer"), in the select on statusC ("await"), in the accepted
\* branch ("store", "write"), and returned without or with an error.
HandlerPc == {"idle", "register", "offer", "await", "store", "write", "ok", "err"}

\* The types of the state; past its reading part a handler has a bid, and a
\* stream only sends on or calls what it has.
TypeOK ==
  /\ pc \in [Handlers -> HandlerPc]
  /\ digest \in [Handlers -> Digests \cup {None}]
  /\ \A h \in Handlers : pc[h] \notin {"idle", "err"} => digest[h] # None
  /\ ctxDone \in SUBSET Handlers
  /\ bidsInProcess \in [Digests -> Handlers \cup {None}]
  /\ respC \in [Handlers -> Decisions \cup {None}]
  /\ recvPc \in [Receivers -> {"off", "select", "send"}]
  /\ recvBid \in [Receivers -> Digests \cup {None}]
  /\ \A r \in Receivers : recvPc[r] = "send" => recvBid[r] # None
  /\ delivered \in SUBSET Digests
  /\ respPc \in [Responders -> {"off", "recv", "callback"}]
  /\ respMsg \in [Responders -> Decisions \cup {None}]
  /\ callback \in [Responders -> Handlers \cup {None}]
  /\ \A s \in Responders :
       respPc[s] = "callback" => callback[s] # None /\ respMsg[s] # None
  /\ decision \in [Decisions -> BidResponse \cup {None}]
  /\ stored \in SUBSET Handlers
  /\ sent \in SUBSET Handlers

Init ==
  /\ pc = [h \in Handlers |-> "idle"]
  /\ digest = [h \in Handlers |-> None]
  /\ ctxDone = {}
  /\ bidsInProcess = [d \in Digests |-> None]
  /\ respC = [h \in Handlers |-> None]
  /\ recvPc = [r \in Receivers |-> "off"]
  /\ recvBid = [r \in Receivers |-> None]
  /\ delivered = {}
  /\ respPc = [s \in Responders |-> "off"]
  /\ respMsg = [s \in Responders |-> None]
  /\ callback = [s \in Responders |-> None]
  /\ decision = [i \in Decisions |-> None]
  /\ stored = {}
  /\ sent = {}

-----------------------------------------------------------------------------
(***************************************************************************)
(* Seeded faults.  Each is a variant of the action it is named after, as a *)
(* slip in the code would make it; no specification uses them.             *)
(***************************************************************************)
\* The callback is called without looking at ok.
DropResponse_NoOkCheck(s, i) ==
  /\ respPc[s] = "recv" /\ decision[i] = None
  /\ \E d \in delivered, st \in Status :
       /\ bidsInProcess[d] = None
       /\ decision' = [decision EXCEPT ![i] = [digest |-> d, status |-> st]]
  /\ respMsg' = [respMsg EXCEPT ![s] = i]
  /\ respPc' = [respPc EXCEPT ![s] = "callback"]
  /\ UNCHANGED <<pc, digest, ctxDone, bidsInProcess, respC, recvPc, recvBid,
                 delivered, callback, stored, sent>>

\* SendProcessedBids leaves the entry in the map.
LookUpCallback_NoDelete(s, i) ==
  /\ respPc[s] = "recv" /\ decision[i] = None
  /\ \E d \in delivered, st \in Status :
       /\ bidsInProcess[d] # None
       /\ decision' = [decision EXCEPT ![i] = [digest |-> d, status |-> st]]
       /\ callback' = [callback EXCEPT ![s] = bidsInProcess[d]]
  /\ respMsg' = [respMsg EXCEPT ![s] = i]
  /\ respPc' = [respPc EXCEPT ![s] = "callback"]
  /\ UNCHANGED <<pc, digest, ctxDone, bidsInProcess, respC, recvPc, recvBid,
                 delivered, stored, sent>>

\* The status goes to every handler that waits on the digest.
RunCallback_AllWaiters(s) ==
  /\ respPc[s] = "callback"
  /\ respC' = [h \in Handlers |->
                 IF digest[h] = digest[callback[s]] THEN respMsg[s] ELSE respC[h]]
  /\ callback' = [callback EXCEPT ![s] = None]
  /\ respMsg' = [respMsg EXCEPT ![s] = None]
  /\ respPc' = [respPc EXCEPT ![s] = "recv"]
  /\ UNCHANGED <<pc, digest, ctxDone, bidsInProcess, recvPc, recvBid, delivered,
                 decision, stored, sent>>

\* Any answer counts as an acceptance.
TakeStatus_AnyStatus(h) ==
  /\ pc[h] = "await" /\ respC[h] # None
  /\ pc' = [pc EXCEPT ![h] = "store"]
  /\ UNCHANGED <<digest, ctxDone, bidsInProcess, respC, apiVars, stored, sent>>

\* The error of StoreCommitment is logged and not returned.
StoreFails_Ignored(h) ==
  /\ pc[h] = "store"
  /\ stored' \in {stored, stored \cup {h}}
  /\ pc' = [pc EXCEPT ![h] = "write"]
  /\ UNCHANGED <<digest, ctxDone, bidsInProcess, respC, apiVars, sent>>

\* ProcessBid removes its entry on every return (a deferred delete).
HandOver_DeferDelete(h, r) ==
  /\ pc[h] = "offer" /\ recvPc[r] = "select"
  /\ pc' = [pc EXCEPT ![h] = "await"]
  /\ bidsInProcess' = [bidsInProcess EXCEPT ![digest[h]] = None]
  /\ recvPc' = [recvPc EXCEPT ![r] = "send"]
  /\ recvBid' = [recvBid EXCEPT ![r] = digest[h]]
  /\ UNCHANGED <<digest, ctxDone, respC, delivered, respPc, respMsg, callback,
                 decision, stored, sent>>

\* handleBid waits for statusC without a case for ctx.Done().
AwaitTimeout_Missing(h) == pc[h] = "await" /\ FALSE /\ UNCHANGED vars

-----------------------------------------------------------------------------
(***************************************************************************)
(* handleBid, first part: the peer is a bidder, the bid is read, VerifyBid *)
(* accepts it and CheckBidderAllowance finds the signer's allowance large  *)
(* enough.  None of this touches shared state, so it is one step.  The     *)
(* 5-second context starts at its end.                                     *)
(***************************************************************************)
AdmitBid(h) ==
  /\ pc[h] = "idle"
  /\ \E d \in SignedBids :
       /\ digest' = [digest EXCEPT ![h] = d]
       /\ pc' = [pc EXCEPT ![h] = "register"]
  /\ UNCHANGED <<ctxDone, bidsInProcess, respC, apiVars, stored, sent>>

\* An early return: wrong peer type, failed read, bad signature, too little
\* allowance, or a bid that ProcessBid's validator turns down.
RefuseBid(h) ==
  /\ pc[h] \in {"idle", "register"}
  /\ pc' = [pc EXCEPT ![h] = "err"]
  /\ UNCHANGED <<digest, ctxDone, bidsInProcess, respC, apiVars, stored, sent>>

\* The handler's context is done: its 5 seconds are over, or the bidder
\* disconnected and the peer registry cancelled the stream.
CtxDone(h) ==
  /\ pc[h] \in {"register", "offer", "await", "store", "write"}
  /\ h \notin ctxDone
  /\ ctxDone' = ctxDone \cup {h}
  /\ UNCHANGED <<pc, digest, bidsInProcess, respC, apiVars, stored, sent>>

\* ProcessBid puts the callback into bidsInProcess, over whatever was there.
RegisterCallback(h) ==
  /\ pc[h] = "register"
  /\ bidsInProcess' = [bidsInProcess EXCEPT ![digest[h]] = h]
  /\ pc' = [pc EXCEPT ![h] = "offer"]
  /\ UNCHANGED <<digest, ctxDone, respC, apiVars, stored, sent>>

\* ProcessBid's select, case <-ctx.Done(): the entry of the digest goes,
\* whoever owns it by now.
OfferTimeout(h) ==
  /\ pc[h] = "offer"
  /\ h \in ctxDone
  /\ bidsInProcess' = [bidsInProcess EXCEPT ![digest[h]] = None]
  /\ pc' = [pc EXCEPT ![h] = "err"]
  /\ UNCHANGED <<digest, ctxDone, respC, apiVars, stored, sent>>

\* ProcessBid's select, case s.receiver <- bidMsg: the channel is unbuffered,
\* so a ReceiveBids stream takes the bid in the same step.
HandOver(h, r) ==
  /\ pc[h] = "offer"
  /\ recvPc[r] = "select"
  /\ pc' = [pc EXCEPT ![h] = "await"]
  /\ recvPc' = [recvPc EXCEPT ![r] = "send"]
  /\ recvBid' = [recvBid EXCEPT ![r] = digest[h]]
  /\ UNCHANGED <<digest, ctxDone, bidsInProcess, respC, delivered, respPc,
                 respMsg, callback, decision, stored, sent>>

\* handleBid's select, case <-ctx.Done(): the callback stays in the map.
AwaitTimeout(h) ==
  /\ pc[h] = "await"
  /\ h \in ctxDone
  /\ pc' = [pc EXCEPT ![h] = "err"]
  /\ UNCHANGED <<digest, ctxDone, bidsInProcess, respC, apiVars, stored, sent>>

\* handleBid's select, case st := <-statusC.
TakeStatus(h) ==
  /\ pc[h] = "await"
  /\ respC[h] # None
  /\ pc' = [pc EXCEPT ![h] =
              IF decision[respC[h]].status = "ACCEPTED" THEN "store" ELSE "err"]
  /\ UNCHANGED <<digest, ctxDone, bidsInProcess, respC, apiVars, stored, sent>>

\* ConstructPreConfirmation and StoreCommitment succeed.
StoreCommitment(h) ==
  /\ pc[h] = "store"
  /\ stored' = stored \cup {h}
  /\ pc' = [pc EXCEPT ![h] = "write"]
  /\ UNCHANGED <<digest, ctxDone, bidsInProcess, respC, apiVars, sent>>

\* One of them returns an error.  A call that fails because ctx ended may
\* still have handed the transaction to the chain's node.
StoreFails(h) ==
  /\ pc[h] = "store"
  /\ stored' \in {stored, stored \cup {h}}
  /\ pc' = [pc EXCEPT ![h] = "err"]
  /\ UNCHANGED <<digest, ctxDone, bidsInProcess, respC, apiVars, sent>>

\* stream.WriteMsg(ctx, preConfirmation) succeeds.
WritePreconf(h) ==
  /\ pc[h] = "write"
  /\ sent' = sent \cup {h}
  /\ pc' = [pc EXCEPT ![h] = "ok"]
  /\ UNCHANGED <<digest, ctxDone, bidsInProcess, respC, apiVars, stored>>

\* It returns an error; on ctx.Done() the goroutine that writes goes on, so the
\* message may still leave.
WriteFails(h) ==
  /\ pc[h] = "write"
  /\ sent' \in {sent, sent \cup {h}}
  /\ pc' = [pc EXCEPT ![h] = "err"]
  /\ UNCHANGED <<digest, ctxDone, bidsInProcess, respC, apiVars, stored>>

-----------------------------------------------------------------------------
(***************************************************************************)
(* ReceiveBids: the provider's software opens a stream; the loop takes a   *)
(* bid from s.receiver (HandOver) and sends it.  A failed send, and the    *)
(* end of the stream's context, end the loop.                              *)
(***************************************************************************)
OpenReceive(r) ==
  /\ recvPc[r] = "off"
  /\ recvPc' = [recvPc EXCEPT ![r] = "select"]
  /\ UNCHANGED <<pc, digest, ctxDone, bidsInProcess, respC, recvBid, delivered,
                 respPc, respMsg, callback, decision, stored, sent>>

SendBidToProvider(r) ==
  /\ recvPc[r] = "send"
  /\ delivered' = delivered \cup {recvBid[r]}
  /\ recvBid' = [recvBid EXCEPT ![r] = None]
  /\ recvPc' = [recvPc EXCEPT ![r] = "select"]
  /\ UNCHANGED <<pc, digest, ctxDone, bidsInProcess, respC, respPc, respMsg,
                 callback, decision, stored, sent>>

ReceiveEnds(r) ==
  /\ recvPc[r] = "select"
  /\ recvPc' = [recvPc EXCEPT ![r] = "off"]
  /\ UNCHANGED <<pc, digest, ctxDone, bidsInProcess, respC, recvBid, delivered,
                 respPc, respMsg, callback, decision, stored, sent>>

\* srv.Send returns an error.  The bid is out of the channel for good; whether it
\* got to the other end is unknown.
SendToProviderFails(r) ==
  /\ recvPc[r] = "send"
  /\ delivered' \in {delivered, delivered \cup {recvBid[r]}}
  /\ recvBid' = [recvBid EXCEPT ![r] = None]
  /\ recvPc' = [recvPc EXCEPT ![r] = "off"]
  /\ UNCHANGED <<pc, digest, ctxDone, bidsInProcess, respC, respPc, respMsg,
                 callback, decision, stored, sent>>

(***************************************************************************)
(* SendProcessedBids: the loop receives a BidResponse (the provider's      *)
(* software answers bids it has seen, as often as it likes), and under the *)
(* lock looks the callback up and deletes the entry.  After the unlock it  *)
(* runs the callback.  A response the validator refuses and an error of    *)
(* Recv end the stream.                                                    *)
(***************************************************************************)
OpenRespond(s) ==
  /\ respPc[s] = "off"
  /\ respPc' = [respPc EXCEPT ![s] = "recv"]
  /\ UNCHANGED <<pc, digest, ctxDone, bidsInProcess, respC, recvPc, recvBid,
                 delivered, respMsg, callback, decision, stored, sent>>

RespondEnds(s) ==
  /\ respPc[s] = "recv"
  /\ respPc' = [respPc EXCEPT ![s] = "off"]
  /\ UNCHANGED <<pc, digest, ctxDone, bidsInProcess, respC, recvPc, recvBid,
                 delivered, respMsg, callback, decision, stored, sent>>

\* Recv returns response i, and the lookup finds a callback.
LookUpCallback(s, i) ==
  /\ respPc[s] = "recv"
  /\ decision[i] = None
  /\ \E d \in delivered, st \in Status :
       /\ bidsInProcess[d] # None
       /\ decision' = [decision EXCEPT ![i] = [digest |-> d, status |-> st]]
       /\ callback' = [callback EXCEPT ![s] = bidsInProcess[d]]
       /\ bidsInProcess' = [bidsInProcess EXCEPT ![d] = None]
  /\ respMsg' = [respMsg EXCEPT ![s] = i]
  /\ respPc' = [respPc EXCEPT ![s] = "callback"]
  /\ UNCHANGED <<pc, digest, ctxDone, respC, recvPc, recvBid, delivered, stored,
                 sent>>

\* The lookup finds nothing and the response is dropped.
DropResponse(s, i) ==
  /\ respPc[s] = "recv"
  /\ decision[i] = None
  /\ \E d \in delivered, st \in Status :
       /\ bidsInProcess[d] = None
       /\ decision' = [decision EXCEPT ![i] = [digest |-> d, status |-> st]]
  /\ UNCHANGED <<pc, digest, ctxDone, bidsInProcess, respC, recvPc, recvBid,
                 delivered, respPc, respMsg, callback, stored, sent>>

\* The callback: respC <- status, then close(respC).
RunCallback(s) ==
  /\ respPc[s] = "callback"
  /\ respC' = [respC EXCEPT ![callback[s]] = respMsg[s]]
  /\ callback' = [callback EXCEPT ![s] = None]
  /\ respMsg' = [respMsg EXCEPT ![s] = None]
  /\ respPc' = [respPc EXCEPT ![s] = "recv"]
  /\ UNCHANGED <<pc, digest, ctxDone, bidsInProcess, recvPc, recvBid, delivered,
                 decision, stored, sent>>

-----------------------------------------------------------------------------
HandlerStep(h) ==
  \/ AdmitBid(h)
  \/ RefuseBid(h)
  \/ CtxDone(h)
  \/ RegisterCallback(h)
  \/ OfferTimeout(h)
  \/ \E r \in Receivers : HandOver(h, r)
  \/ AwaitTimeout(h)
  \/ TakeStatus(h)
  \/ StoreCommitment(h)
  \/ StoreFails(h)
  \/ WritePreconf(h)
  \/ WriteFails(h)

ReceiverStep(r) ==
  \/ OpenReceive(r)
  \/ SendBidToProvider(r)
  \/ ReceiveEnds(r)
  \/ SendToProviderFails(r)

ResponderStep(s) ==
  \/ OpenRespond(s)
  \/ RespondEnds(s)
  \/ \E i \in Decisions : LookUpCallback(s, i) \/ DropResponse(s, i)
  \/ RunCallback(s)

Next ==
  \/ \E h \in Handlers : HandlerStep(h)
  \/ \E r \in Receivers : ReceiverStep(r)
  \/ \E s \in Responders : ResponderStep(s)

Spec == Init /\ [][Next]_vars

(***************************************************************************)
(* Fairness: a handler that is past its reading part keeps running, its    *)
(* 5-second timer fires, and calls that carry its context return; a stream *)
(* that holds a callback runs it.  Nothing is asked of the provider's      *)
(* software or of the bidder.                                              *)
(***************************************************************************)
HandlerProgress(h) ==
  \/ RegisterCallback(h) \/ OfferTimeout(h) \/ AwaitTimeout(h) \/ TakeStatus(h)
  \/ StoreCommitment(h) \/ StoreFails(h) \/ WritePreconf(h) \/ WriteFails(h)

FairSpec ==
  /\ Spec
  /\ \A h \in Handlers : WF_vars(CtxDone(h)) /\ WF_vars(HandlerProgress(h))
  /\ \A s \in Responders : WF_vars(RunCallback(s))

-----------------------------------------------------------------------------
\* A callback that a SendProcessedBids stream is about to run belongs to a
\* handler whose response channel is still empty and open, and no other stream
\* holds it: the send never blocks the stream and never hits a closed channel,
\* although the callback is run after bidsMu is released and a digest's entry
\* may have been overwritten, deleted and registered again in between.
CallbackSafe ==
  \A s \in Responders : respPc[s] = "callback" =>
    /\ respC[callback[s]] = None
    /\ \A t \in Responders \ {s} :
         respPc[t] = "callback" => callback[t] # callback[s]

\* One decision of the provider commits it at most once: two handlers (of the
\* same bid sent twice, say) never store commitments on the strength of the same
\* BidResponse.
OneCommitmentPerDecision ==
  \A g, h \in stored : respC[g] = respC[h] => g = h

\* A commitment goes to the chain only for a bid that VerifyBid accepted, that
\* reached the provider's software, and that the software accepted under the
\* very digest of this handler's bid; a preconfirmation goes to the bidder only
\* after its commitment went to the chain.
CommitmentJustified ==
  /\ \A h \in stored :
       /\ digest[h] \in SignedBids \cap delivered
       /\ respC[h] # None
       /\ decision[respC[h]] = [digest |-> digest[h], status |-> "ACCEPTED"]
  /\ sent \subseteq stored

\* While a handler whose bid no other handler carries waits for the provider,
\* the provider's answer can reach it: its callback is in the map, or in the
\* hands of a stream, or has run.  (A second handler of the same digest takes
\* the entry over, and its timeout in ProcessBid deletes the other's.)
WaitingIsReachable ==
  \A h \in Handlers :
    (/\ pc[h] \in {"offer", "await"}
     /\ \A g \in Handlers \ {h} : digest[g] # digest[h])
    => \/ bidsInProcess[digest[h]] = h
       \/ \E s \in Responders : respPc[s] = "callback" /\ callback[s] = h
       \/ respC[h] # None

\* Once handleBid has admitted a bid it returns: no provider, bidder or chain
\* keeps the handler for ever.
HandlerReturns ==
  \A h \in Handlers : pc[h] = "register" ~> pc[h] \in {"ok", "err"}

-----------------------------------------------------------------------------
(***************************************************************************)
(* What the bidder sees of a handler: the commitment, and the one message  *)
(* on the stream.  Returning an error writes that error, which a           *)
(* preconfirmation that left before it precedes.                           *)
(***************************************************************************)
answered == [h \in Handlers |-> IF h \in sent THEN "preconf"
                               ELSE IF pc[h] = "err" THEN "error" ELSE "none"]

Bids == INSTANCE BidStream WITH
          Streams <- Handlers, committed <- stored, answer <- answered

\* handleBid keeps the promise of BidStream: one answer on a stream, and a
\* preconfirmation only for a commitment that went to the chain before.
BidSpec == Bids!StreamSpec
=============================================================================
