----------------------------- MODULE BidderSend -----------------------------
(***************************************************************************)
(* The bidder's side of a bid: the gRPC method SendBid of pkg/rpc/bidder   *)
(* and Preconfirmation.SendBid, which sends the signed bid to every        *)
(* provider of the topology from a goroutine of its own and collects the   *)
(* preconfirmations in a channel that another goroutine closes.            *)
(*                                                                         *)
(* Calls share nothing that changes, so this is one call.  A stream, the   *)
(* goroutine that uses it and the preconfirmation it yields are named by   *)
(* the provider.  The providers' nodes are BidStream.                      *)
(***************************************************************************)
EXTENDS BidStream, Naturals, FiniteSets

ASSUME StreamsAssumption == IsFiniteSet(Streams)

VARIABLES
  apiPc,             \* the gRPC method: not called, ranging over respC, returned
  ctx,               \* its context: live, ended by itself, or cancelled at return
  providers,         \* what GetPeers returned
  pc,                \* the goroutine of each provider
  preConfirmations,  \* the channel's content
  closed,            \* close(preConfirmations)
  asked,             \* providers that the bid was written to
  verified,          \* those whose preconfirmation was read and verified
  told               \* those whose commitment was sent to the bidder's software

callVars == <<apiPc, ctx, providers>>
resultVars == <<preConfirmations, closed, told>>
vars == <<callVars, pc, resultVars, asked, verified, streamVars>>

\* The types of the state, and how far a provider's answer can have come.
TypeOK ==
  /\ apiPc \in {"idle", "range", "ok", "err"}
  /\ ctx \in {"live", "ended", "cancelled"}
  /\ providers \in SUBSET Streams
  /\ pc \in [Streams -> {"idle", "open", "write", "read", "push", "done"}]
  /\ \A p \in Streams : pc[p] # "idle" <=> p \in providers
  /\ preConfirmations \in SUBSET providers
  /\ closed \in BOOLEAN
  /\ asked \in SUBSET providers
  /\ verified \in SUBSET asked
  /\ told \in SUBSET verified
  /\ committed \in SUBSET asked
  /\ answer \in [Streams -> {"none", "preconf", "error"}]

Init ==
  /\ apiPc = "idle"
  /\ ctx = "live"
  /\ providers = {}
  /\ pc = [p \in Streams |-> "idle"]
  /\ preConfirmations = {}
  /\ closed = FALSE
  /\ asked = {}
  /\ verified = {}
  /\ told = {}
  /\ StreamInit

-----------------------------------------------------------------------------
(***************************************************************************)
(* Seeded faults: variants of the definitions they are named after.        *)
(***************************************************************************)
\* VerifyPreConfirmation is not called.
ReadPreconf_NoVerify(p) ==
  /\ pc[p] = "read"
  /\ answer[p] = "preconf"
  /\ pc' = [pc EXCEPT ![p] = "push"]
  /\ UNCHANGED <<callVars, resultVars, asked, verified, streamVars>>

\* wg.Add(1) in the goroutine instead of before it.
CloseResults_LateAdd ==
  /\ providers # {} /\ ~closed
  /\ \A p \in providers : pc[p] \in {"open", "done"}
  /\ closed' = TRUE
  /\ UNCHANGED <<callVars, pc, preConfirmations, told, asked, verified, streamVars>>

\* The error of ReadMsg is not looked at.
ReadPreconf_AnyAnswer(p) ==
  /\ pc[p] = "read"
  /\ answer[p] # "none"
  /\ pc' = [pc EXCEPT ![p] = "push"]
  /\ verified' = verified \cup {p}
  /\ UNCHANGED <<callVars, resultVars, asked, streamVars>>

\* The method returns after the first commitment.
Return_AfterFirst ==
  /\ apiPc = "range"
  /\ (preConfirmations = {} /\ closed) \/ told # {}
  /\ apiPc' = "ok"
  /\ ctx' = IF ctx = "live" THEN "cancelled" ELSE ctx
  /\ UNCHANGED <<providers, pc, resultVars, asked, verified, streamVars>>

\* ReadMsg waits for the provider whatever ctx says.
ReadEnds_NoCtx(p) ==
  /\ pc[p] = "read"
  /\ answer[p] = "error"
  /\ pc' = [pc EXCEPT ![p] = "done"]
  /\ UNCHANGED <<callVars, resultVars, asked, verified, streamVars>>

-----------------------------------------------------------------------------
(***************************************************************************)
(* The gRPC method up to its loop: the bid is validated and signed, and    *)
(* there are providers; or one of these is not so.                         *)
(***************************************************************************)
SendBid ==
  /\ apiPc = "idle"
  /\ \E T \in SUBSET Streams \ {{}} :
       /\ providers' = T
       /\ pc' = [p \in Streams |-> IF p \in T THEN "open" ELSE "idle"]
  /\ apiPc' = "range"
  /\ UNCHANGED <<ctx, resultVars, asked, verified, streamVars>>

SendBidFails ==
  /\ apiPc = "idle"
  /\ apiPc' = "err"
  /\ ctx' = "cancelled"
  /\ UNCHANGED <<providers, pc, resultVars, asked, verified, streamVars>>

\* The 10 seconds are over, or the bidder's software went away.
CtxDone ==
  /\ apiPc = "range"
  /\ ctx = "live"
  /\ ctx' = "ended"
  /\ UNCHANGED <<apiPc, providers, pc, resultVars, asked, verified, streamVars>>

-----------------------------------------------------------------------------
(***************************************************************************)
(* The goroutine of a provider.                                            *)
(***************************************************************************)
Leave(p) == pc' = [pc EXCEPT ![p] = "done"]

NewStream(p) ==
  /\ pc[p] = "open"
  /\ pc' = [pc EXCEPT ![p] = "write"]
  /\ UNCHANGED <<callVars, resultVars, asked, verified, streamVars>>

\* The peer is gone, refuses the stream, or ctx is done.
NewStreamFails(p) ==
  /\ pc[p] = "open"
  /\ Leave(p)
  /\ UNCHANGED <<callVars, resultVars, asked, verified, streamVars>>

WriteBid(p) ==
  /\ pc[p] = "write"
  /\ pc' = [pc EXCEPT ![p] = "read"]
  /\ asked' = asked \cup {p}
  /\ UNCHANGED <<callVars, resultVars, verified, streamVars>>

\* When ctx ends WriteMsg, its goroutine goes on and the bid may still leave.
WriteBidFails(p) ==
  /\ pc[p] = "write"
  /\ Leave(p)
  /\ asked' \in {asked, asked \cup {p}}
  /\ UNCHANGED <<callVars, resultVars, verified, streamVars>>

\* ReadMsg and VerifyPreConfirmation succeed.
ReadPreconf(p) ==
  /\ pc[p] = "read"
  /\ answer[p] = "preconf"
  /\ pc' = [pc EXCEPT ![p] = "push"]
  /\ verified' = verified \cup {p}
  /\ UNCHANGED <<callVars, resultVars, asked, streamVars>>

\* ReadMsg returns the provider's error, or ctx is done.
ReadEnds(p) ==
  /\ pc[p] = "read"
  /\ answer[p] = "error" \/ ctx # "live"
  /\ Leave(p)
  /\ UNCHANGED <<callVars, resultVars, asked, verified, streamVars>>

\* The stream breaks, or what it brings cannot be read or verified.
ReadBreaks(p) ==
  /\ pc[p] = "read"
  /\ Leave(p)
  /\ UNCHANGED <<callVars, resultVars, asked, verified, streamVars>>

\* The select: the channel has room for every provider, and ctx may be done.
Push(p) ==
  /\ pc[p] = "push"
  /\ Cardinality(preConfirmations) < Cardinality(providers)
  /\ preConfirmations' = preConfirmations \cup {p}
  /\ Leave(p)
  /\ UNCHANGED <<callVars, closed, told, asked, verified, streamVars>>

PushCancelled(p) ==
  /\ pc[p] = "push"
  /\ ctx # "live"
  /\ Leave(p)
  /\ UNCHANGED <<callVars, resultVars, asked, verified, streamVars>>

\* The last goroutine: wg.Wait, then close.
CloseResults ==
  /\ providers # {}
  /\ ~closed
  /\ \A p \in providers : pc[p] = "done"
  /\ closed' = TRUE
  /\ UNCHANGED <<callVars, pc, preConfirmations, told, asked, verified, streamVars>>

-----------------------------------------------------------------------------
(***************************************************************************)
(* The gRPC method's loop, and its deferred cancel.                        *)
(***************************************************************************)
Cancel == ctx' = IF ctx = "live" THEN "cancelled" ELSE ctx

Forward(p) ==
  /\ apiPc = "range"
  /\ p \in preConfirmations
  /\ preConfirmations' = preConfirmations \ {p}
  /\ told' = told \cup {p}
  /\ UNCHANGED <<callVars, pc, closed, asked, verified, streamVars>>

\* srv.Send returns an error.
ForwardFails(p) ==
  /\ apiPc = "range"
  /\ p \in preConfirmations
  /\ preConfirmations' = preConfirmations \ {p}
  /\ told' \in {told, told \cup {p}}
  /\ apiPc' = "err"
  /\ Cancel
  /\ UNCHANGED <<providers, pc, closed, asked, verified, streamVars>>

Return ==
  /\ apiPc = "range"
  /\ preConfirmations = {} /\ closed
  /\ apiPc' = "ok"
  /\ Cancel
  /\ UNCHANGED <<providers, pc, resultVars, asked, verified, streamVars>>

\* A provider's node works on a bid it was sent.
ProviderStep(p) ==
  /\ p \in asked
  /\ StreamStep(p)
  /\ UNCHANGED <<callVars, pc, resultVars, asked, verified>>

-----------------------------------------------------------------------------
SenderStep(p) ==
  \/ NewStream(p)   \/ NewStreamFails(p)
  \/ WriteBid(p)    \/ WriteBidFails(p)
  \/ ReadPreconf(p) \/ ReadEnds(p) \/ ReadBreaks(p)
  \/ Push(p)        \/ PushCancelled(p)

ApiStep ==
  \/ SendBid \/ SendBidFails \/ CtxDone \/ Return
  \/ \E p \in Streams : Forward(p) \/ ForwardFails(p)

Next ==
  \/ ApiStep
  \/ CloseResults
  \/ \E p \in Streams : SenderStep(p) \/ ProviderStep(p)

Spec == Init /\ [][Next]_vars

(***************************************************************************)
(* Fairness: the timer fires, goroutines run and their calls, which carry  *)
(* ctx, return; the bidder's software takes what it is sent or goes away.  *)
(* Nothing is asked of the providers.                                      *)
(***************************************************************************)
FairSpec ==
  /\ Spec
  /\ WF_vars(CtxDone)
  /\ WF_vars(CloseResults)
  /\ WF_vars(Return \/ \E p \in Streams : Forward(p) \/ ForwardFails(p))
  /\ \A p \in Streams :
       /\ WF_vars(NewStream(p) \/ NewStreamFails(p))
       /\ WF_vars(WriteBid(p) \/ WriteBidFails(p))
       /\ WF_vars(ReadPreconf(p) \/ ReadEnds(p))
       /\ WF_vars(Push(p) \/ PushCancelled(p))

-----------------------------------------------------------------------------
\* A goroutine that has a preconfirmation can always put it into the channel: it
\* is not closed (no panic) and has room (no goroutine stays behind), even when
\* the gRPC method has long returned and nobody reads.
PushSafe ==
  \A p \in Streams : pc[p] = "push" =>
    ~closed /\ Cardinality(preConfirmations) < Cardinality(providers)

\* What the bidder's software is told was committed to the chain by the provider
\* it was asked of: no error, no late or lost answer turns into a commitment.
ToldIsCommitted == told \subseteq committed

\* When the method returns without an error and in time, the bidder's software
\* was told every preconfirmation that any goroutine verified.
NothingLost == apiPc = "ok" /\ ctx # "ended" => verified \subseteq told

\* The call returns and leaves no goroutine behind, whatever the providers do
\* (service.go:55: "to prevent hanging of bidder node if provider node is not
\* responding").
CallEnds == apiPc = "range" ~> apiPc \in {"ok", "err"} /\ closed
=============================================================================
