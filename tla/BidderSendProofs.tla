-------------------------- MODULE BidderSendProofs --------------------------
(***************************************************************************)
(* The safety properties of BidderSend, for any finite set of providers.   *)
(* They rest on where the preconfirmation of a provider can be: with its   *)
(* goroutine, in the channel, or told, and lost only after ctx is done.    *)
(***************************************************************************)
EXTENDS BidderSend, FiniteSetTheorems, TLAPS

\* Before the call there is nothing, and the context is cancelled by returning.
CallOrder ==
  /\ apiPc = "idle" => providers = {} /\ ~closed
  /\ apiPc = "ok" => closed
  /\ ctx = "cancelled" => apiPc \in {"ok", "err"}

\* What a goroutine holds is nowhere else, and what is elsewhere it gave away.
Whereabouts ==
  /\ \A p \in Streams : pc[p] = "read" => p \in asked
  /\ \A p \in Streams : pc[p] = "push" => p \in verified \ preConfirmations
  /\ \A p \in preConfirmations : pc[p] = "done" /\ p \in verified
  /\ \A p \in verified : pc[p] \in {"push", "done"}
  /\ closed => \A p \in providers : pc[p] = "done"

\* A verified preconfirmation was answered, and answered after the commitment.
Backed ==
  /\ \A p \in verified : answer[p] = "preconf"
  /\ \A p \in Streams : answer[p] = "preconf" => p \in committed

\* While the context lives nothing is dropped, and nothing after a timely return.
Kept ==
  /\ apiPc = "range" /\ ctx = "live" =>
       \A p \in verified : pc[p] = "push" \/ p \in preConfirmations \cup told
  /\ NothingLost

Inv == TypeOK /\ CallOrder /\ Whereabouts /\ Backed /\ Kept

-----------------------------------------------------------------------------
\* The initial state.
LEMMA InitInv == Init => Inv
  BY DEF Init, StreamInit, Inv, TypeOK, CallOrder, Whereabouts, Backed, Kept,
       NothingLost

\* Types: an answer comes only as far as the one before it.
LEMMA TypeStep ==
  ASSUME TypeOK, CallOrder, Whereabouts, [Next]_vars
  PROVE  TypeOK'
<1>. USE DEF TypeOK, CallOrder, Whereabouts, callVars, resultVars, streamVars
<1>1. CASE SendBid
  BY <1>1 DEF SendBid
<1>2. CASE SendBidFails
  BY <1>2 DEF SendBidFails
<1>3. CASE CtxDone
  BY <1>3 DEF CtxDone
<1>4. CASE Return
  BY <1>4 DEF Return, Cancel
<1>5. CASE CloseResults
  BY <1>5 DEF CloseResults
<1>6. ASSUME NEW p \in Streams, Forward(p) PROVE TypeOK'
  BY <1>6 DEF Forward
<1>7. ASSUME NEW p \in Streams, ForwardFails(p) PROVE TypeOK'
  BY <1>7 DEF ForwardFails, Cancel
<1>8. ASSUME NEW p \in Streams, NewStream(p) PROVE TypeOK'
  BY <1>8 DEF NewStream
<1>9. ASSUME NEW p \in Streams, NewStreamFails(p) PROVE TypeOK'
  BY <1>9 DEF NewStreamFails, Leave
<1>10. ASSUME NEW p \in Streams, WriteBid(p) PROVE TypeOK'
  BY <1>10 DEF WriteBid
<1>11. ASSUME NEW p \in Streams, WriteBidFails(p) PROVE TypeOK'
  BY <1>11 DEF WriteBidFails, Leave
<1>12. ASSUME NEW p \in Streams, ReadPreconf(p) PROVE TypeOK'
  BY <1>12 DEF ReadPreconf
<1>13. ASSUME NEW p \in Streams, ReadEnds(p) PROVE TypeOK'
  BY <1>13 DEF ReadEnds, Leave
<1>14. ASSUME NEW p \in Streams, ReadBreaks(p) PROVE TypeOK'
  BY <1>14 DEF ReadBreaks, Leave
<1>15. ASSUME NEW p \in Streams, Push(p) PROVE TypeOK'
  BY <1>15 DEF Push, Leave
<1>16. ASSUME NEW p \in Streams, PushCancelled(p) PROVE TypeOK'
  BY <1>16 DEF PushCancelled, Leave
<1>17. ASSUME NEW p \in Streams, ProviderStep(p) PROVE TypeOK'
  BY <1>17 DEF ProviderStep, StreamStep, Commit, Answer, Fail
<1>18. CASE UNCHANGED vars
  BY <1>18 DEF vars
<1>19. QED
  BY <1>1, <1>2, <1>3, <1>4, <1>5, <1>6, <1>7, <1>8, <1>9, <1>10, <1>11, <1>12,
       <1>13, <1>14, <1>15, <1>16, <1>17, <1>18 DEF Next, ApiStep, SenderStep

\* The call's own order.
LEMMA OrderStep ==
  ASSUME TypeOK, CallOrder, [Next]_vars
  PROVE  CallOrder'
<1>. USE DEF TypeOK, CallOrder, callVars, resultVars, streamVars
<1>1. CASE SendBid
  BY <1>1 DEF SendBid
<1>2. CASE SendBidFails
  BY <1>2 DEF SendBidFails
<1>3. CASE CtxDone
  BY <1>3 DEF CtxDone
<1>4. CASE Return
  BY <1>4 DEF Return, Cancel
<1>5. CASE CloseResults
  BY <1>5 DEF CloseResults
<1>6. ASSUME NEW p \in Streams, Forward(p) PROVE CallOrder'
  BY <1>6 DEF Forward
<1>7. ASSUME NEW p \in Streams, ForwardFails(p) PROVE CallOrder'
  BY <1>7 DEF ForwardFails, Cancel
<1>8. ASSUME NEW p \in Streams, NewStream(p) PROVE CallOrder'
  BY <1>8 DEF NewStream
<1>9. ASSUME NEW p \in Streams, NewStreamFails(p) PROVE CallOrder'
  BY <1>9 DEF NewStreamFails, Leave
<1>10. ASSUME NEW p \in Streams, WriteBid(p) PROVE CallOrder'
  BY <1>10 DEF WriteBid
<1>11. ASSUME NEW p \in Streams, WriteBidFails(p) PROVE CallOrder'
  BY <1>11 DEF WriteBidFails, Leave
<1>12. ASSUME NEW p \in Streams, ReadPreconf(p) PROVE CallOrder'
  BY <1>12 DEF ReadPreconf
<1>13. ASSUME NEW p \in Streams, ReadEnds(p) PROVE CallOrder'
  BY <1>13 DEF ReadEnds, Leave
<1>14. ASSUME NEW p \in Streams, ReadBreaks(p) PROVE CallOrder'
  BY <1>14 DEF ReadBreaks, Leave
<1>15. ASSUME NEW p \in Streams, Push(p) PROVE CallOrder'
  BY <1>15 DEF Push, Leave
<1>16. ASSUME NEW p \in Streams, PushCancelled(p) PROVE CallOrder'
  BY <1>16 DEF PushCancelled, Leave
<1>17. ASSUME NEW p \in Streams, ProviderStep(p) PROVE CallOrder'
  BY <1>17 DEF ProviderStep, StreamStep, Commit, Answer, Fail
<1>18. CASE UNCHANGED vars
  BY <1>18 DEF vars
<1>19. QED
  BY <1>1, <1>2, <1>3, <1>4, <1>5, <1>6, <1>7, <1>8, <1>9, <1>10, <1>11, <1>12,
       <1>13, <1>14, <1>15, <1>16, <1>17, <1>18 DEF Next, ApiStep, SenderStep

\* A goroutine gives its preconfirmation away once, before it is done.
LEMMA WhereStep ==
  ASSUME TypeOK, CallOrder, Whereabouts, [Next]_vars
  PROVE  Whereabouts'
<1>. USE DEF TypeOK, CallOrder, Whereabouts, callVars, resultVars, streamVars
<1>1. CASE SendBid
  BY <1>1 DEF SendBid
<1>2. CASE SendBidFails
  BY <1>2 DEF SendBidFails
<1>3. CASE CtxDone
  BY <1>3 DEF CtxDone
<1>4. CASE Return
  BY <1>4 DEF Return, Cancel
<1>5. CASE CloseResults
  BY <1>5 DEF CloseResults
<1>6. ASSUME NEW p \in Streams, Forward(p) PROVE Whereabouts'
  BY <1>6 DEF Forward
<1>7. ASSUME NEW p \in Streams, ForwardFails(p) PROVE Whereabouts'
  BY <1>7 DEF ForwardFails, Cancel
<1>8. ASSUME NEW p \in Streams, NewStream(p) PROVE Whereabouts'
  BY <1>8 DEF NewStream
<1>9. ASSUME NEW p \in Streams, NewStreamFails(p) PROVE Whereabouts'
  BY <1>9 DEF NewStreamFails, Leave
<1>10. ASSUME NEW p \in Streams, WriteBid(p) PROVE Whereabouts'
  BY <1>10 DEF WriteBid
<1>11. ASSUME NEW p \in Streams, WriteBidFails(p) PROVE Whereabouts'
  BY <1>11 DEF WriteBidFails, Leave
<1>12. ASSUME NEW p \in Streams, ReadPreconf(p) PROVE Whereabouts'
  BY <1>12 DEF ReadPreconf
<1>13. ASSUME NEW p \in Streams, ReadEnds(p) PROVE Whereabouts'
  BY <1>13 DEF ReadEnds, Leave
<1>14. ASSUME NEW p \in Streams, ReadBreaks(p) PROVE Whereabouts'
  BY <1>14 DEF ReadBreaks, Leave
<1>15. ASSUME NEW p \in Streams, Push(p) PROVE Whereabouts'
  BY <1>15 DEF Push, Leave
<1>16. ASSUME NEW p \in Streams, PushCancelled(p) PROVE Whereabouts'
  BY <1>16 DEF PushCancelled, Leave
<1>17. ASSUME NEW p \in Streams, ProviderStep(p) PROVE Whereabouts'
  BY <1>17 DEF ProviderStep, StreamStep, Commit, Answer, Fail
<1>18. CASE UNCHANGED vars
  BY <1>18 DEF vars
<1>19. QED
  BY <1>1, <1>2, <1>3, <1>4, <1>5, <1>6, <1>7, <1>8, <1>9, <1>10, <1>11, <1>12,
       <1>13, <1>14, <1>15, <1>16, <1>17, <1>18 DEF Next, ApiStep, SenderStep

\* An answer is given once and a commitment is not taken back.
LEMMA BackedStep ==
  ASSUME TypeOK, Backed, [Next]_vars
  PROVE  Backed'
<1>. USE DEF TypeOK, Backed, callVars, resultVars, streamVars
<1>1. CASE SendBid
  BY <1>1 DEF SendBid
<1>2. CASE SendBidFails
  BY <1>2 DEF SendBidFails
<1>3. CASE CtxDone
  BY <1>3 DEF CtxDone
<1>4. CASE Return
  BY <1>4 DEF Return, Cancel
<1>5. CASE CloseResults
  BY <1>5 DEF CloseResults
<1>6. ASSUME NEW p \in Streams, Forward(p) PROVE Backed'
  BY <1>6 DEF Forward
<1>7. ASSUME NEW p \in Streams, ForwardFails(p) PROVE Backed'
  BY <1>7 DEF ForwardFails, Cancel
<1>8. ASSUME NEW p \in Streams, NewStream(p) PROVE Backed'
  BY <1>8 DEF NewStream
<1>9. ASSUME NEW p \in Streams, NewStreamFails(p) PROVE Backed'
  BY <1>9 DEF NewStreamFails, Leave
<1>10. ASSUME NEW p \in Streams, WriteBid(p) PROVE Backed'
  BY <1>10 DEF WriteBid
<1>11. ASSUME NEW p \in Streams, WriteBidFails(p) PROVE Backed'
  BY <1>11 DEF WriteBidFails, Leave
<1>12. ASSUME NEW p \in Streams, ReadPreconf(p) PROVE Backed'
  BY <1>12 DEF ReadPreconf
<1>13. ASSUME NEW p \in Streams, ReadEnds(p) PROVE Backed'
  BY <1>13 DEF ReadEnds, Leave
<1>14. ASSUME NEW p \in Streams, ReadBreaks(p) PROVE Backed'
  BY <1>14 DEF ReadBreaks, Leave
<1>15. ASSUME NEW p \in Streams, Push(p) PROVE Backed'
  BY <1>15 DEF Push, Leave
<1>16. ASSUME NEW p \in Streams, PushCancelled(p) PROVE Backed'
  BY <1>16 DEF PushCancelled, Leave
<1>17. ASSUME NEW p \in Streams, ProviderStep(p) PROVE Backed'
  BY <1>17 DEF ProviderStep, StreamStep, Commit, Answer, Fail
<1>18. CASE UNCHANGED vars
  BY <1>18 DEF vars
<1>19. QED
  BY <1>1, <1>2, <1>3, <1>4, <1>5, <1>6, <1>7, <1>8, <1>9, <1>10, <1>11, <1>12,
       <1>13, <1>14, <1>15, <1>16, <1>17, <1>18 DEF Next, ApiStep, SenderStep

\* Only a done context, or a failed send, drops a preconfirmation.
LEMMA KeptStep ==
  ASSUME TypeOK, CallOrder, Whereabouts, Kept, [Next]_vars
  PROVE  Kept'
<1>. USE DEF TypeOK, CallOrder, Whereabouts, Kept, NothingLost, callVars,
  resultVars, streamVars
<1>1. CASE SendBid
  BY <1>1 DEF SendBid
<1>2. CASE SendBidFails
  BY <1>2 DEF SendBidFails
<1>3. CASE CtxDone
  BY <1>3 DEF CtxDone
<1>4. CASE Return
  BY <1>4 DEF Return, Cancel
<1>5. CASE CloseResults
  BY <1>5 DEF CloseResults
<1>6. ASSUME NEW p \in Streams, Forward(p) PROVE Kept'
  BY <1>6 DEF Forward
<1>7. ASSUME NEW p \in Streams, ForwardFails(p) PROVE Kept'
  BY <1>7 DEF ForwardFails, Cancel
<1>8. ASSUME NEW p \in Streams, NewStream(p) PROVE Kept'
  BY <1>8 DEF NewStream
<1>9. ASSUME NEW p \in Streams, NewStreamFails(p) PROVE Kept'
  BY <1>9 DEF NewStreamFails, Leave
<1>10. ASSUME NEW p \in Streams, WriteBid(p) PROVE Kept'
  BY <1>10 DEF WriteBid
<1>11. ASSUME NEW p \in Streams, WriteBidFails(p) PROVE Kept'
  BY <1>11 DEF WriteBidFails, Leave
<1>12. ASSUME NEW p \in Streams, ReadPreconf(p) PROVE Kept'
  BY <1>12 DEF ReadPreconf
<1>13. ASSUME NEW p \in Streams, ReadEnds(p) PROVE Kept'
  BY <1>13 DEF ReadEnds, Leave
<1>14. ASSUME NEW p \in Streams, ReadBreaks(p) PROVE Kept'
  BY <1>14 DEF ReadBreaks, Leave
<1>15. ASSUME NEW p \in Streams, Push(p) PROVE Kept'
  BY <1>15 DEF Push, Leave
<1>16. ASSUME NEW p \in Streams, PushCancelled(p) PROVE Kept'
  BY <1>16 DEF PushCancelled, Leave
<1>17. ASSUME NEW p \in Streams, ProviderStep(p) PROVE Kept'
  BY <1>17 DEF ProviderStep, StreamStep, Commit, Answer, Fail
<1>18. CASE UNCHANGED vars
  BY <1>18 DEF vars
<1>19. QED
  BY <1>1, <1>2, <1>3, <1>4, <1>5, <1>6, <1>7, <1>8, <1>9, <1>10, <1>11, <1>12,
       <1>13, <1>14, <1>15, <1>16, <1>17, <1>18 DEF Next, ApiStep, SenderStep

-----------------------------------------------------------------------------
\* The parts together are inductive.
THEOREM Invariance == Spec => []Inv
<1>1. Inv /\ [Next]_vars => Inv'
  BY TypeStep, OrderStep, WhereStep, BackedStep, KeptStep DEF Inv
<1>2. QED
  BY <1>1, InitInv, PTL DEF Spec

\* Types of a SendBid call.
THEOREM TypeCorrect == Spec => []TypeOK
<1>1. Inv => TypeOK
  BY DEF Inv
<1>2. QED
  BY <1>1, Invariance, PTL

\* The channel's capacity, the number of providers, is enough for every push
\* (preconfirmation.go:109), and wg keeps it open until the last one: the pushing
\* provider itself is missing from the channel.
THEOREM PushIsSafe == Spec => []PushSafe
<1>1. Inv => PushSafe
  <2>. SUFFICES ASSUME Inv, NEW p \in Streams, pc[p] = "push"
                PROVE  ~closed /\ Cardinality(preConfirmations) <
                  Cardinality(providers)
    BY DEF PushSafe
  <2>1. p \in providers /\ p \notin preConfirmations
    BY DEF Inv, TypeOK, Whereabouts
  <2>2. ~closed
    BY <2>1 DEF Inv, Whereabouts
  <2>3. IsFiniteSet(providers)
    BY StreamsAssumption, FS_Subset DEF Inv, TypeOK
  <2>4. preConfirmations \in SUBSET providers /\ preConfirmations # providers
    BY <2>1 DEF Inv, TypeOK
  <2>5. Cardinality(preConfirmations) < Cardinality(providers)
    <3>1. IsFiniteSet(preConfirmations)
      BY <2>3, <2>4, FS_Subset
    <3>2. /\ Cardinality(preConfirmations) <= Cardinality(providers)
          /\ Cardinality(providers) # Cardinality(preConfirmations)
      BY <2>3, <2>4, FS_Subset
    <3>3. Cardinality(preConfirmations) \in Nat /\ Cardinality(providers) \in Nat
      BY <2>3, <3>1, FS_CardinalityType
    <3>4. QED
      BY <3>2, <3>3
  <2>6. QED
    BY <2>2, <2>5
<1>2. QED
  BY <1>1, Invariance, PTL

\* The bidder's software is told only of commitments that went to the chain.
THEOREM ToldCommitted == Spec => []ToldIsCommitted
<1>1. Inv => ToldIsCommitted
  BY DEF Inv, TypeOK, Backed, ToldIsCommitted
<1>2. QED
  BY <1>1, Invariance, PTL

\* A timely return without an error has forwarded every verified preconfirmation.
THEOREM Complete == Spec => []NothingLost
<1>1. Inv => NothingLost
  BY DEF Inv, Kept
<1>2. QED
  BY <1>1, Invariance, PTL
=============================================================================
