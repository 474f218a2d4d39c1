--------------------------- MODULE HandshakeProofs ---------------------------
(***************************************************************************)
(* Proofs about Handshake: its types, that whoever is registered anywhere  *)
(* and the node that registered it have both passed the checks, that the   *)
(* two ends agree about an open connection once things settle, that no     *)
(* answer is ever refused, and what a node is blocked for and how long.    *)
(*                                                                         *)
(* The inductive invariant says, of each handshake, which pairs of         *)
(* positions its two ends can be in, which of the four messages can be     *)
(* under way then, and which of the two nodes has been verified by then.   *)
(* Of an open connection it says that neither end has given up on it, and  *)
(* that it is registered where its handshakes have registered it.          *)
(***************************************************************************)
EXTENDS Handshake, TLAPS

-----------------------------------------------------------------------------
(***************************************************************************)
(* What the two ends of n's handshake may have sent and read so far.       *)
(***************************************************************************)
\* The four messages, in their order.
Msg1(n) == Request(n)
Msg2(n) == Response(n, Request(n))
Msg3(n) == Request(Other(n))
Msg4(n) == Response(Other(n), Request(Other(n)))

Shakes == [dial : DialPc, handle : HandlePc, up : Seq(Req \cup Resp), down : Seq(Req \cup Resp)]

\* The types of the rest.
RestOK ==
  /\ peerType \in [Nodes -> Types]
  /\ sig \in [Nodes -> Nodes \cup {Stranger}]
  /\ staked \subseteq Nodes
  /\ boots \subseteq Nodes
  /\ dials \in 0 .. MaxDials
  /\ call \in [Dialers -> {"none", "dial", "stream"}]
  /\ passed \in [Nodes -> SUBSET Nodes]
  /\ conn \in [Conns -> {"free", "open", "closed"}]
  /\ unseen \in [Conns -> SUBSET Nodes]
  /\ registered \in [Nodes -> SUBSET Conns]
  /\ blocked \in [Nodes -> {"no", "timed", "forever"}]
  /\ faults \in 0 .. MaxFaults

\* Where the ends are and what is under way between them.
Position(n, s) ==
  /\ s.dial = "none" <=> s.handle = "none"
  /\ s.dial = "none" => s.up = <<>> /\ s.down = <<>>
  /\ s.up \in {<<>>, <<Msg1(n)>>, <<Msg4(n)>>}
  /\ s.down \in {<<>>, <<Msg2(n), Msg3(n)>>, <<Msg3(n)>>}
  /\ s.handle = "read" =>
       s.up = <<Msg1(n)>> /\ s.down = <<>> /\ s.dial \in {"awaitResp", "refused"}
  /\ s.handle = "awaitAck" =>
       s.up \in {<<>>, <<Msg4(n)>>} /\ (s.up # <<>> => s.dial \in {"add", "done"})
  /\ s.handle \in {"add", "done"} => s.dial \in {"add", "done"}
  /\ s.dial = "awaitResp" => s.down \in {<<>>, <<Msg2(n), Msg3(n)>>}
  /\ s.dial = "awaitReq" => s.down = <<Msg3(n)>>
  /\ s.down # <<>> => s.up = <<>> /\ s.handle \in {"awaitAck", "refused"}
  /\ s.dial \in {"awaitReq", "add", "done"} => s.handle \in {"awaitAck", "add", "done", "refused"}

\* Who has passed the checks by then.
Consent(n, s) ==
  /\ s.handle \in {"awaitAck", "add", "done"} => Admissible(n)
  /\ s.down # <<>> => Admissible(n)
  /\ s.dial \in {"awaitReq", "add", "done"} => Admissible(n)
  /\ s.dial \in {"add", "done"} => Admissible(Other(n))

ShakesOK ==
  /\ shake \in [Conns \X Dialers -> Shakes]
  /\ \A c \in Conns, d \in Dialers :
       Position(Home(d), shake[<<c, d>>]) /\ Consent(Home(d), shake[<<c, d>>])

Failed == {"refused", "blockForever", "blockTimed"}

\* An end that gives up closes the connection, which is another one when it is open
\* again.
OpenIsSound ==
  \A c \in Conns : Open(c) =>
    /\ unseen[c] = {}
    /\ \A d \in Dialers : shake[<<c, d>>].dial \notin Failed /\ shake[<<c, d>>].handle \notin Failed

\* What is registered of an open connection is what its handshakes have registered.
RegisteredByShake ==
  \A c \in Conns, n \in Nodes : Open(c) =>
    (c \in registered[n] <=>
       \E d \in Dialers : \/ Home(d) = n /\ shake[<<c, d>>].dial = "done"
                          \/ Home(d) = Other(n) /\ shake[<<c, d>>].handle = "done")

\* A goroutine that has yet to start its handshake has started none on a connection
\* that is open.
CallsAreFresh ==
  \A c \in Conns, d \in Dialers :
    Open(c) /\ call[d] # "none" => shake[<<c, d>>].dial = "none"

OpenParts == OpenIsSound /\ RegisteredByShake /\ CallsAreFresh

\* The inductive invariant.
IInv == RestOK /\ ShakesOK /\ OpenParts /\ MutualConsent

-----------------------------------------------------------------------------
(***************************************************************************)
(* Facts about the operators.                                              *)
(***************************************************************************)
\* There are two nodes, so Other is the one that a node is not.
LEMMA OtherFacts ==
  ASSUME NEW n \in Nodes
  PROVE  /\ Other(n) \in Nodes
         /\ Other(n) # n
         /\ Other(Other(n)) = n
         /\ \A m \in Nodes : m = n \/ m = Other(n)
<1>1. PICK m \in Nodes : Nodes = {n, m} /\ n # m
  BY HandshakeAssumption
<1>2. Other(n) = m
  BY <1>1 DEF Other
<1>3. Other(m) = n
  BY <1>1 DEF Other
<1> QED
  BY <1>1, <1>2, <1>3

\* A goroutine runs on a node.
LEMMA HomeFacts ==
  ASSUME NEW d \in Dialers
  PROVE  Home(d) \in Nodes
  BY DEF Dialers, Home

\* What is assumed of the bounds.
LEMMA Bounds == MaxFaults \in Nat /\ MaxDials \in Nat
  BY HandshakeAssumption

\* What the reads and writes of the streams do to the queues that occur.
LEMMA Queues ==
  ASSUME NEW a, NEW b
  PROVE  /\ Head(<<a>>) = a /\ Tail(<<a>>) = <<>>
         /\ Head(<<a, b>>) = a /\ Tail(<<a, b>>) = <<b>>
         /\ Append(<<>>, a) = <<a>>
         /\ <<a>> # <<>> /\ <<a, b>> # <<>> /\ <<a>> # <<a, b>> /\ <<b>> # <<a, b>>
  OBVIOUS

\* The four messages are messages.
LEMMA Messages ==
  ASSUME RestOK, NEW n \in Nodes
  PROVE  /\ Msg1(n) \in Req /\ Msg2(n) \in Resp /\ Msg3(n) \in Req /\ Msg4(n) \in Resp
         /\ <<>> \in Seq(Req \cup Resp)
         /\ <<Msg1(n)>> \in Seq(Req \cup Resp)
         /\ <<Msg4(n)>> \in Seq(Req \cup Resp)
         /\ <<Msg3(n)>> \in Seq(Req \cup Resp)
         /\ <<Msg2(n), Msg3(n)>> \in Seq(Req \cup Resp)
<1>1. Request(n) \in Req /\ Request(Other(n)) \in Req
  BY OtherFacts DEF RestOK, Request, Req
<1>2. Msg2(n) \in Resp
  BY DEF RestOK, Msg2, Response, Request, Resp
<1>3. Msg4(n) \in Resp
  BY OtherFacts DEF RestOK, Msg4, Response, Request, Resp
<1>4. Msg1(n) \in Req /\ Msg3(n) \in Req
  BY <1>1 DEF Msg1, Msg3
<1> QED
  BY <1>2, <1>3, <1>4

\* Nobody can take an admission back: keys and types stay, and stakes are only added.
LEMMA AdmissibleStays ==
  ASSUME peerType' = peerType, sig' = sig, staked \subseteq staked', NEW n \in Nodes,
         Admissible(n)
  PROVE  Admissible(n)'
  BY DEF Admissible

\* verifyReq accepts the request of an admissible node only.
LEMMA Verdicts ==
  ASSUME RestOK, NEW n \in Nodes, NEW v \in verifyReq(n, Request(n))
  PROVE  /\ v \in {"ok", "blockForever", "blockTimed", "rpcFails"}
         /\ v = "ok" => Admissible(n)
         /\ v = "rpcFails" => faults < MaxFaults
<1>1. CASE sig[n] # n
  BY <1>1 DEF verifyReq, Verify, Request
<1>2. CASE sig[n] = n /\ peerType[n] = "provider"
  BY <1>2 DEF verifyReq, Verify, Request, CheckProviderRegistered, Admissible
<1>3. CASE sig[n] = n /\ peerType[n] # "provider"
  BY <1>3 DEF verifyReq, Verify, Request, Admissible
<1> QED
  BY <1>1, <1>2, <1>3

\* Where an end goes after a verdict.
LEMMA AfterVerdict ==
  ASSUME NEW v \in {"ok", "blockForever", "blockTimed", "rpcFails"}, NEW ok
  PROVE  /\ v = "ok" => After(v, ok) = ok
         /\ v # "ok" => After(v, ok) \in {"blockForever", "blockTimed"}
  BY DEF After

\* A verdict other than ok closes, and a failed call counts as a fault.
LEMMA ConcludedFacts ==
  ASSUME RestOK, NEW v, v = "rpcFails" => faults < MaxFaults, Concluded(v)
  PROVE  /\ faults' \in 0 .. MaxFaults
         /\ v # "ok" => ClosePeer
         /\ v = "ok" => UNCHANGED <<conn, unseen>>
  BY Bounds DEF RestOK, Concluded

\* A slot that NewConn picks is spent.
LEMMA NewConnFacts ==
  ASSUME Unused # {}
  PROVE  NewConn \in Conns /\ Spent(NewConn)
  BY DEF Unused, NewConn

-----------------------------------------------------------------------------
(***************************************************************************)
(* What keeps the parts of the invariant.                                  *)
(***************************************************************************)
\* Handshakes that stay, or whose ends are again where they may be, are fine.
LEMMA ShakesKept ==
  ASSUME ShakesOK, peerType' = peerType, sig' = sig, staked \subseteq staked',
         shake' \in [Conns \X Dialers -> Shakes],
         \A c \in Conns, d \in Dialers :
           \/ shake'[<<c, d>>] = shake[<<c, d>>]
           \/ Position(Home(d), shake'[<<c, d>>]) /\ Consent(Home(d), shake'[<<c, d>>])
  PROVE  ShakesOK'
<1>1. ASSUME NEW c \in Conns, NEW d \in Dialers, NEW n \in Nodes, n = Home(d)
      PROVE  Position(n, shake[<<c, d>>])' /\ Consent(n, shake[<<c, d>>])'
  <2>1. Position(n, shake'[<<c, d>>]) /\ Consent(n, shake'[<<c, d>>])
    BY <1>1 DEF ShakesOK
  <2>2. Position(n, shake[<<c, d>>])'
    BY <2>1 DEF Position, Msg1, Msg2, Msg3, Msg4, Response, Request
  <2>3. /\ Admissible(n) => Admissible(n)'
        /\ Admissible(Other(n)) => Admissible(Other(n))'
    BY AdmissibleStays, OtherFacts
  <2>4. Consent(n, shake[<<c, d>>])'
    BY <2>1, <2>3 DEF Consent
  <2> QED
    BY <2>2, <2>4
<1> QED
  BY <1>1, HomeFacts DEF ShakesOK

\* The same for a step of one handshake.
LEMMA ShakeStepKept ==
  ASSUME ShakesOK, peerType' = peerType, sig' = sig, staked \subseteq staked',
         NEW c \in Conns, NEW d \in Dialers, NEW t \in Shakes,
         Position(Home(d), t), Consent(Home(d), t),
         shake' = [shake EXCEPT ![<<c, d>>] = t]
  PROVE  ShakesOK'
<1>1. shake' \in [Conns \X Dialers -> Shakes]
  BY DEF ShakesOK
<1>2. ASSUME NEW e \in Conns, NEW f \in Dialers
      PROVE  \/ shake'[<<e, f>>] = shake[<<e, f>>]
             \/ Position(Home(f), shake'[<<e, f>>]) /\ Consent(Home(f), shake'[<<e, f>>])
  <2>1. CASE <<e, f>> = <<c, d>>
    BY <2>1 DEF ShakesOK
  <2>2. CASE <<e, f>> # <<c, d>>
    BY <2>2 DEF ShakesOK
  <2> QED
    BY <2>1, <2>2
<1> QED
  BY <1>1, <1>2, ShakesKept

\* ClosePeer leaves no connection open.
LEMMA ClosedParts ==
  ASSUME RestOK, ClosePeer
  PROVE  /\ \A c \in Conns : ~Open(c)'
         /\ OpenParts'
         /\ conn' \in [Conns -> {"free", "open", "closed"}]
         /\ unseen' \in [Conns -> SUBSET Nodes]
<1>1. \A c \in Conns : ~Open(c)'
  BY DEF ClosePeer, Open
<1>2. OpenParts'
  BY <1>1 DEF OpenParts, OpenIsSound, RegisteredByShake, CallsAreFresh
<1> QED
  BY <1>1, <1>2 DEF RestOK, ClosePeer

\* A step of one handshake that neither fails nor finishes an end.
LEMMA OpenPartsKept ==
  ASSUME OpenParts, ShakesOK, UNCHANGED <<conn, unseen, registered>>,
         NEW c \in Conns, NEW d \in Dialers, NEW t \in Shakes,
         Open(c) => t.dial \notin Failed /\ t.handle \notin Failed,
         Open(c) => (t.dial = "done" <=> shake[<<c, d>>].dial = "done"),
         Open(c) => (t.handle = "done" <=> shake[<<c, d>>].handle = "done"),
         Open(c) => call'[d] = "none",
         \A f \in Dialers : call'[f] # "none" => call[f] # "none",
         shake' = [shake EXCEPT ![<<c, d>>] = t]
  PROVE  OpenParts'
<1>1. ASSUME NEW e \in Conns, NEW f \in Dialers, Open(e)
      PROVE  /\ shake'[<<e, f>>].dial \notin Failed /\ shake'[<<e, f>>].handle \notin Failed
             /\ shake'[<<e, f>>].dial = "done" <=> shake[<<e, f>>].dial = "done"
             /\ shake'[<<e, f>>].handle = "done" <=> shake[<<e, f>>].handle = "done"
             /\ call'[f] # "none" => shake'[<<e, f>>].dial = "none"
  <2>1. CASE <<e, f>> = <<c, d>>
    BY <1>1, <2>1 DEF ShakesOK
  <2>2. CASE <<e, f>> # <<c, d>>
    BY <1>1, <2>2 DEF ShakesOK, OpenParts, OpenIsSound, CallsAreFresh
  <2> QED
    BY <2>1, <2>2
<1>2. \A e \in Conns : Open(e)' <=> Open(e)
  BY DEF Open
<1>3. OpenIsSound' /\ CallsAreFresh'
  BY <1>1, <1>2 DEF OpenParts, OpenIsSound, CallsAreFresh
<1>4. RegisteredByShake'
  <2> SUFFICES ASSUME NEW e \in Conns, NEW m \in Nodes, Open(e)
               PROVE  e \in registered[m] <=>
                        \E f \in Dialers : \/ Home(f) = m /\ shake'[<<e, f>>].dial = "done"
                                           \/ Home(f) = Other(m) /\ shake'[<<e, f>>].handle = "done"
    BY <1>2 DEF RegisteredByShake
  <2> QED
    BY <1>1 DEF OpenParts, RegisteredByShake
<1> QED
  BY <1>3, <1>4 DEF OpenParts

\* Registrations that are not new stay justified.
LEMMA ConsentKept ==
  ASSUME MutualConsent, peerType' = peerType, sig' = sig, staked \subseteq staked',
         \A n \in Nodes : registered'[n] \subseteq registered[n]
  PROVE  MutualConsent'
<1> SUFFICES ASSUME NEW n \in Nodes, registered'[n] # {}, NEW m \in Nodes
             PROVE  Admissible(m)'
  BY DEF MutualConsent
<1>1. Admissible(m)
  BY DEF MutualConsent
<1> QED
  BY <1>1, AdmissibleStays

-----------------------------------------------------------------------------
(***************************************************************************)
(* The initial states, and one lemma per action.                           *)
(***************************************************************************)
LEMMA InitIInv == Init => IInv
<1> SUFFICES ASSUME Init PROVE IInv
  OBVIOUS
<1> USE DEF Init
<1>1. RestOK
  <2>1. peerType \in [Nodes -> Types] /\ boots \subseteq Nodes
    <3>1. boots \subseteq Nodes
      BY HandshakeAssumption
    <3>2. [Nodes -> {"provider", "bidder"}] \subseteq [Nodes -> Types]
      BY DEF Types
    <3>3. peerType \in [Nodes -> Types] \/ peerType \in [Nodes -> {"provider", "bidder"}]
      OBVIOUS
    <3> HIDE DEF Init
    <3> QED
      BY <3>1, <3>2, <3>3
  <2>2. dials \in 0 .. MaxDials
    BY Bounds
  <2>3. sig \in [Nodes -> Nodes \cup {Stranger}]
    <3>1. \/ sig = [n \in Nodes |-> n]
          \/ \E n \in Nodes : sig = [m \in Nodes |-> IF m = n THEN Stranger ELSE m]
      OBVIOUS
    <3> HIDE DEF Init
    <3> QED
      BY <3>1
  <2>4. staked \subseteq Nodes
    OBVIOUS
  <2>5. /\ call = [d \in Dialers |-> "none"] /\ passed = [n \in Nodes |-> {}] /\ faults = 0
        /\ conn = [c \in Conns |-> "free"]
        /\ unseen = [c \in Conns |-> {}]
        /\ registered = [n \in Nodes |-> {}]
        /\ blocked = [n \in Nodes |-> "no"]
    OBVIOUS
  <2> HIDE DEF Init
  <2> QED
    BY <2>1, <2>2, <2>3, <2>4, <2>5, Bounds DEF RestOK
<1>2. ShakesOK
  <2>1. NoShake \in Shakes
    BY DEF NoShake, Shakes, DialPc, HandlePc
  <2>2. \A n \in Nodes : Position(n, NoShake) /\ Consent(n, NoShake)
    BY DEF Position, Consent, NoShake
  <2> QED
    BY <2>1, <2>2, HomeFacts DEF ShakesOK
<1>3. OpenParts
  BY DEF OpenParts, OpenIsSound, RegisteredByShake, CallsAreFresh, Open
<1>4. MutualConsent
  BY DEF MutualConsent
<1> QED
  BY <1>1, <1>2, <1>3, <1>4 DEF IInv

\* Steps that touch neither a handshake nor a connection nor a registration, and
\* after which no more goroutines are about to start a handshake than may be.
LEMMA ElsewhereStep ==
  ASSUME IInv, RestOK', UNCHANGED <<peerType, sig, conn, unseen, registered, shake>>,
         staked \subseteq staked',
         \A c \in Conns, d \in Dialers : Open(c) /\ call'[d] # "none" =>
           call[d] # "none" \/ shake[<<c, d>>].dial = "none"
  PROVE  IInv'
<1>1. ShakesOK'
  BY ShakesKept DEF IInv, ShakesOK
<1>2. OpenParts'
  <2>1. OpenIsSound' /\ RegisteredByShake'
    BY DEF IInv, OpenParts, OpenIsSound, RegisteredByShake, Open
  <2>2. CallsAreFresh'
    BY DEF IInv, OpenParts, CallsAreFresh, Open
  <2> QED
    BY <2>1, <2>2 DEF OpenParts
<1>3. MutualConsent'
  BY ConsentKept DEF IInv
<1> QED
  BY <1>1, <1>2, <1>3 DEF IInv

\* What is known of one handshake.
LEMMA OneShake ==
  ASSUME IInv, NEW c \in Conns, NEW d \in Dialers, NEW n \in Nodes, n = Home(d)
  PROVE  /\ shake[<<c, d>>] \in Shakes
         /\ Position(n, shake[<<c, d>>])
         /\ Consent(n, shake[<<c, d>>])
         /\ Open(c) => shake[<<c, d>>].dial \notin Failed /\ shake[<<c, d>>].handle \notin Failed
  BY DEF IInv, ShakesOK, OpenParts, OpenIsSound

\* The handshake that the dialling end begins.
LEMMA BegunShake ==
  ASSUME RestOK, NEW n \in Nodes,
         NEW t, t = [dial |-> "awaitResp", handle |-> "read", up |-> <<Request(n)>>, down |-> <<>>]
  PROVE  t \in Shakes /\ Position(n, t) /\ Consent(n, t)
<1>1. t \in Shakes
  BY Messages DEF Shakes, DialPc, HandlePc, Msg1
<1>2. Position(n, t)
  BY DEF Position, Msg1
<1> QED
  BY <1>1, <1>2 DEF Consent

\* A goroutine that may call Connect has no handshake on a connection that is open:
\* one that was done would have registered it, one that was refused closed it.
LEMMA MayDialFacts ==
  ASSUME IInv, NEW d \in Dialers, MayDial(d)
  PROVE  /\ dials' \in 0 .. MaxDials
         /\ \A c \in Conns : Open(c) => shake[<<c, d>>].dial = "none"
<1>1. dials' \in 0 .. MaxDials
  BY Bounds DEF MayDial, IInv, RestOK
<1>2. ASSUME NEW c \in Conns, Open(c)
      PROVE  shake[<<c, d>>].dial = "none"
  <2>1. shake[<<c, d>>].dial \in {"none", "done", "refused"} /\ registered[Home(d)] = {}
    BY DEF MayDial, Idle, isConnected
  <2>2. shake[<<c, d>>].dial # "done"
    BY <1>2, <2>1, HomeFacts DEF IInv, OpenParts, RegisteredByShake
  <2>3. shake[<<c, d>>].dial # "refused"
    BY <1>2 DEF IInv, OpenParts, OpenIsSound, Failed
  <2> QED
    BY <2>1, <2>2, <2>3
<1> QED
  BY <1>1, <1>2

LEMMA DialKnownStep ==
  ASSUME IInv, NEW d \in Dialers, DialKnown(d)
  PROVE  IInv'
<1>1. /\ UNCHANGED <<identity, passed, conn, unseen, registered, blocked, shake, faults>>
      /\ MayDial(d) /\ call' = [call EXCEPT ![d] = "stream"]
  BY DEF DialKnown
<1>2. RestOK'
  BY <1>1, MayDialFacts DEF IInv, RestOK, identity
<1>3. \A c \in Conns, f \in Dialers : Open(c) /\ call'[f] # "none" =>
        call[f] # "none" \/ shake[<<c, f>>].dial = "none"
  BY <1>1, MayDialFacts DEF IInv, RestOK
<1> QED
  BY <1>1, <1>2, <1>3, ElsewhereStep DEF identity

LEMMA DialBeginsStep ==
  ASSUME IInv, NEW d \in Dialers, DialBegins(d)
  PROVE  IInv'
<1>1. /\ UNCHANGED <<identity, passed, conn, unseen, registered, blocked, shake>>
      /\ MayDial(d) /\ call' = [call EXCEPT ![d] = "dial"]
      /\ \A c \in Conns : ~Open(c)
  BY DEF DialBegins
<1>2. faults' \in 0 .. MaxFaults
  BY Bounds DEF DialBegins, IInv, RestOK
<1>3. RestOK'
  BY <1>1, <1>2, MayDialFacts DEF IInv, RestOK, identity
<1> QED
  BY <1>1, <1>3, ElsewhereStep DEF identity

\* The steps of a dial before there is a connection.
LEMMA DialNotOpenStep ==
  ASSUME IInv, NEW n \in Nodes, DialFails(n) \/ \E m \in Nodes : InterceptSecured(n, m)
  PROVE  IInv'
<1>1. UNCHANGED <<identity, dials, conn, unseen, registered, blocked, shake>>
  BY DEF DialFails, InterceptSecured
<1>2. faults' \in 0 .. MaxFaults
  BY Bounds DEF DialFails, InterceptSecured, IInv, RestOK
<1>3. passed' \in [Nodes -> SUBSET Nodes]
  BY DEF DialFails, Dialled, InterceptSecured, IInv, RestOK
<1>4. /\ call' \in [Dialers -> {"none", "dial", "stream"}]
      /\ \A d \in Dialers : call'[d] # "none" => call[d] # "none"
  BY DEF DialFails, Dialled, InterceptSecured, IInv, RestOK
<1>5. RestOK'
  BY <1>1, <1>2, <1>3, <1>4 DEF IInv, RestOK, identity
<1> QED
  BY <1>1, <1>4, <1>5, ElsewhereStep DEF identity

LEMMA NewStreamEndsStep ==
  ASSUME IInv, NEW d \in Dialers, NewStreamDials(d) \/ NewStreamFails(d)
  PROVE  IInv'
<1>1. UNCHANGED <<identity, dials, passed, conn, unseen, registered, blocked, shake>>
  BY DEF NewStreamDials, NewStreamFails
<1>2. faults' \in 0 .. MaxFaults
  BY Bounds DEF NewStreamDials, NewStreamFails, IInv, RestOK
<1>3. /\ call' \in [Dialers -> {"none", "dial", "stream"}]
      /\ \A f \in Dialers : call'[f] # "none" => call[f] # "none"
  BY DEF NewStreamDials, NewStreamFails, IInv, RestOK
<1>4. RestOK'
  BY <1>1, <1>2, <1>3 DEF IInv, RestOK, identity
<1> QED
  BY <1>1, <1>3, <1>4, ElsewhereStep DEF identity

LEMMA NewStreamStep ==
  ASSUME IInv, NEW c \in Conns, NEW d \in Dialers, NewStream(c, d)
  PROVE  IInv'
<1> DEFINE n == Home(d)
           t == [dial |-> "awaitResp", handle |-> "read", up |-> <<Request(n)>>, down |-> <<>>]
<1>1. t \in Shakes /\ Position(n, t) /\ Consent(n, t)
  BY BegunShake, HomeFacts DEF IInv
<1>2. /\ shake' = [shake EXCEPT ![<<c, d>>] = t]
      /\ call' = [call EXCEPT ![d] = "none"]
      /\ UNCHANGED <<identity, dials, passed, conn, unseen, registered, blocked, faults>>
  BY DEF NewStream, Handshake
<1>3. shake[<<c, d>>].dial = "none" /\ shake[<<c, d>>].handle = "none"
  BY HomeFacts, OneShake DEF NewStream, IInv, OpenParts, CallsAreFresh, Position
<1>4. RestOK'
  BY <1>2 DEF identity, IInv, RestOK
<1>5. ShakesOK'
  BY <1>1, <1>2, ShakeStepKept DEF identity, IInv
<1>6. \A f \in Dialers : call'[f] # "none" => call[f] # "none" /\ f # d
  BY <1>2 DEF IInv, RestOK
<1>7. OpenParts'
  BY <1>1, <1>2, <1>3, <1>6, OpenPartsKept DEF IInv, Failed
<1>8. MutualConsent'
  BY <1>2, ConsentKept DEF identity, IInv
<1> QED
  BY <1>4, <1>5, <1>7, <1>8 DEF IInv

\* A step of a handshake that either goes on or closes every connection.
LEMMA GoesOnOrCloses ==
  ASSUME IInv, NEW c \in Conns, NEW d \in Dialers, NEW t \in Shakes,
         UNCHANGED <<identity, calls, registered, blocked>>,
         faults' \in 0 .. MaxFaults,
         Position(Home(d), t), Consent(Home(d), t),
         shake' = [shake EXCEPT ![<<c, d>>] = t],
         \/ ClosePeer
         \/ /\ UNCHANGED <<conn, unseen>>
            /\ Open(c) => t.dial \notin Failed /\ t.handle \notin Failed
            /\ t.dial = "done" <=> shake[<<c, d>>].dial = "done"
            /\ t.handle = "done" <=> shake[<<c, d>>].handle = "done"
            /\ shake[<<c, d>>].dial # "none"
  PROVE  IInv'
<1>1. ShakesOK'
  BY ShakeStepKept DEF identity, IInv
<1>2. OpenParts' /\ conn' \in [Conns -> {"free", "open", "closed"}]
                 /\ unseen' \in [Conns -> SUBSET Nodes]
  <2>1. CASE ClosePeer
    BY <2>1, ClosedParts DEF IInv
  <2>2. CASE ~ClosePeer
    <3>1. conn' \in [Conns -> {"free", "open", "closed"}] /\ unseen' \in [Conns -> SUBSET Nodes]
      BY <2>2 DEF IInv, RestOK
    <3>2. call' = call /\ (Open(c) => call[d] = "none")
      BY <2>2 DEF calls, IInv, OpenParts, CallsAreFresh
    <3> QED
      BY <2>2, <3>1, <3>2, OpenPartsKept DEF IInv
  <2> QED
    BY <2>1, <2>2
<1>3. RestOK'
  BY <1>2 DEF IInv, RestOK, identity, calls
<1>4. MutualConsent'
  BY ConsentKept DEF identity, IInv
<1> QED
  BY <1>1, <1>2, <1>3, <1>4 DEF IInv

LEMMA ReadRespStep ==
  ASSUME IInv, NEW c \in Conns, NEW d \in Dialers, NEW n \in Nodes,
         n = Home(d), ReadResp(c, d)
  PROVE  IInv'
<1> DEFINE s == shake[<<c, d>>]
           good == verifyResp(n, Head(s.down))
           t == [s EXCEPT !.dial = IF good THEN "awaitReq" ELSE "refused", !.down = Tail(@)]
<1>1. /\ s \in Shakes /\ Position(n, s) /\ Consent(n, s)
      /\ Open(c) => s.dial \notin Failed /\ s.handle \notin Failed
  BY OneShake
<1>2. s.dial = "awaitResp" /\ s.down # <<>>
  BY DEF ReadResp
<1>3. s.down = <<Msg2(n), Msg3(n)>>
  BY <1>1, <1>2 DEF Position
<1>4. Tail(s.down) = <<Msg3(n)>> /\ s.up = <<>>
  BY <1>1, <1>3 DEF Position
<1>5. s.handle \in {"awaitAck", "refused"}
  BY <1>1, <1>2 DEF Position
<1>6. shake' = [shake EXCEPT ![<<c, d>>] = t]
  BY <1>1 DEF ReadResp, Shakes
<1>7. /\ t.dial = IF good THEN "awaitReq" ELSE "refused"
      /\ t.handle = s.handle /\ t.up = <<>> /\ t.down = <<Msg3(n)>>
      /\ t \in Shakes
  BY <1>1, <1>3, <1>4, Messages DEF Shakes, DialPc, IInv
<1>8. Position(n, t)
  BY <1>5, <1>7 DEF Position, Failed
<1>9. Consent(n, t)
  BY <1>1, <1>2, <1>3, <1>7 DEF Consent
<1>10. \/ ClosePeer
       \/ UNCHANGED <<conn, unseen>> /\ t.dial = "awaitReq"
  BY <1>7 DEF ReadResp
<1>11. UNCHANGED <<identity, calls, registered, blocked>> /\ faults' \in 0 .. MaxFaults
  BY DEF ReadResp, IInv, RestOK
<1>12. t.handle = "done" <=> s.handle = "done"
  BY <1>7
<1>13. Open(c) /\ t.dial = "awaitReq" => t.dial \notin Failed /\ t.handle \notin Failed
  BY <1>1, <1>7 DEF Failed
<1>14. t.dial # "done" /\ s.dial # "done" /\ s.dial # "none"
  BY <1>2, <1>7
<1> QED
  BY <1>6, <1>7, <1>8, <1>9, <1>10, <1>11, <1>12, <1>13, <1>14, GoesOnOrCloses

LEMMA ReadReqStep ==
  ASSUME IInv, NEW c \in Conns, NEW d \in Dialers, NEW n \in Nodes,
         n = Home(d), ReadReq(c, d)
  PROVE  IInv'
<1> DEFINE s == shake[<<c, d>>]
           m == Other(n)
<1>1. /\ s \in Shakes /\ Position(n, s) /\ Consent(n, s)
      /\ Open(c) => s.dial \notin Failed /\ s.handle \notin Failed
  BY OneShake
<1>2. s.dial = "awaitReq"
  BY DEF ReadReq
<1>3. /\ s.down = <<Msg3(n)>> /\ s.up = <<>> /\ s.handle \in {"awaitAck", "refused"}
      /\ Admissible(n)
  BY <1>1, <1>2 DEF Position, Consent
<1>4. Head(s.down) = Request(m) /\ Tail(s.down) = <<>>
  BY <1>3 DEF Msg3
<1>5. PICK v \in verifyReq(m, Request(m)) :
        /\ shake' = [shake EXCEPT ![<<c, d>>].dial = After(v, "add"), ![<<c, d>>].down = Tail(@),
                       ![<<c, d>>].up = IF v = "ok" /\ Open(c)
                                   THEN Append(@, Response(m, Request(m))) ELSE @]
        /\ Concluded(v)
  BY <1>4 DEF ReadReq
<1>6. /\ v \in {"ok", "blockForever", "blockTimed", "rpcFails"}
      /\ v = "ok" => Admissible(m)
      /\ v = "rpcFails" => faults < MaxFaults
  BY OtherFacts, Verdicts DEF IInv
<1> DEFINE t == [s EXCEPT !.dial = After(v, "add"), !.down = Tail(@),
                          !.up = IF v = "ok" /\ Open(c)
                                   THEN Append(@, Response(m, Request(m))) ELSE @]
<1>7. shake' = [shake EXCEPT ![<<c, d>>] = t]
  BY <1>1, <1>5 DEF Shakes
<1>8. /\ v = "ok" => t.dial = "add"
      /\ v # "ok" => t.dial \in {"blockForever", "blockTimed"}
  BY <1>1, <1>6, AfterVerdict DEF Shakes
<1>9. /\ t.handle = s.handle /\ t.down = <<>>
      /\ t.up = IF v = "ok" /\ Open(c) THEN <<Msg4(n)>> ELSE <<>>
  BY <1>1, <1>3, <1>4, Queues DEF Shakes, Msg4
<1>10. t \in Shakes
  BY <1>1, <1>8, <1>9, Messages DEF Shakes, DialPc, IInv
<1>11. Position(n, t)
  BY <1>3, <1>8, <1>9 DEF Position
<1>12. Consent(n, t)
  BY <1>3, <1>6, <1>8, <1>9 DEF Consent
<1>13. /\ faults' \in 0 .. MaxFaults
       /\ v # "ok" => ClosePeer
       /\ v = "ok" => UNCHANGED <<conn, unseen>>
  BY <1>5, <1>6, ConcludedFacts DEF IInv
<1>14. UNCHANGED <<identity, calls, registered, blocked>>
  BY DEF ReadReq
<1>15. Open(c) /\ v = "ok" => t.dial \notin Failed /\ t.handle \notin Failed
  BY <1>1, <1>8, <1>9 DEF Failed
<1>16. /\ t.dial # "done" /\ s.dial # "done" /\ s.dial # "none"
       /\ t.handle = "done" <=> s.handle = "done"
  BY <1>2, <1>8, <1>9
<1> QED
  BY <1>7, <1>10, <1>11, <1>12, <1>13, <1>14, <1>15, <1>16, GoesOnOrCloses

LEMMA HandleReqStep ==
  ASSUME IInv, NEW c \in Conns, NEW d \in Dialers, NEW n \in Nodes,
         n = Home(d), HandleReq(c, d)
  PROVE  IInv'
<1> DEFINE s == shake[<<c, d>>]
<1>1. /\ s \in Shakes /\ Position(n, s) /\ Consent(n, s)
      /\ Open(c) => s.dial \notin Failed /\ s.handle \notin Failed
  BY OneShake
<1>2. s.handle = "read"
  BY DEF HandleReq
<1>3. s.up = <<Msg1(n)>> /\ s.down = <<>> /\ s.dial \in {"awaitResp", "refused"}
  BY <1>1, <1>2 DEF Position
<1>4. Head(s.up) = Request(n) /\ Tail(s.up) = <<>>
  BY <1>3 DEF Msg1
<1>5. PICK v \in verifyReq(n, Request(n)) :
        /\ shake' = [shake EXCEPT ![<<c, d>>].handle = After(v, "awaitAck"),
                       ![<<c, d>>].up = Tail(@),
                       ![<<c, d>>].down = IF v = "ok" /\ Open(c)
                           THEN <<Response(n, Request(n)), Request(Other(n))>> ELSE @]
        /\ Concluded(v)
  BY <1>4 DEF HandleReq
<1>6. /\ v \in {"ok", "blockForever", "blockTimed", "rpcFails"}
      /\ v = "ok" => Admissible(n)
      /\ v = "rpcFails" => faults < MaxFaults
  BY Verdicts DEF IInv
<1> DEFINE t == [s EXCEPT !.handle = After(v, "awaitAck"), !.up = Tail(@),
                          !.down = IF v = "ok" /\ Open(c)
                              THEN <<Response(n, Request(n)), Request(Other(n))>> ELSE @]
<1>7. shake' = [shake EXCEPT ![<<c, d>>] = t]
  BY <1>1, <1>5 DEF Shakes
<1>8. /\ v = "ok" => t.handle = "awaitAck"
      /\ v # "ok" => t.handle \in {"blockForever", "blockTimed"}
  BY <1>1, <1>6, AfterVerdict DEF Shakes
<1>9. /\ t.dial = s.dial /\ t.up = <<>>
      /\ t.down = IF v = "ok" /\ Open(c) THEN <<Msg2(n), Msg3(n)>> ELSE <<>>
  BY <1>1, <1>3, <1>4 DEF Shakes, Msg2, Msg3
<1>10. t \in Shakes
  BY <1>1, <1>8, <1>9, Messages DEF Shakes, HandlePc, IInv
<1>11. Position(n, t)
  BY <1>3, <1>8, <1>9 DEF Position
<1>12. Consent(n, t)
  BY <1>3, <1>6, <1>8, <1>9 DEF Consent
<1>13. /\ faults' \in 0 .. MaxFaults
       /\ v # "ok" => ClosePeer
       /\ v = "ok" => UNCHANGED <<conn, unseen>>
  BY <1>5, <1>6, ConcludedFacts DEF IInv
<1>14. UNCHANGED <<identity, calls, registered, blocked>>
  BY DEF HandleReq
<1>15. Open(c) /\ v = "ok" => t.dial \notin Failed /\ t.handle \notin Failed
  BY <1>1, <1>8, <1>9 DEF Failed
<1>16. /\ t.handle # "done" /\ s.handle # "done" /\ s.dial # "none"
       /\ t.dial = "done" <=> s.dial = "done"
  BY <1>2, <1>3, <1>8, <1>9
<1> QED
  BY <1>7, <1>10, <1>11, <1>12, <1>13, <1>14, <1>15, <1>16, GoesOnOrCloses

LEMMA ReadAckStep ==
  ASSUME IInv, NEW c \in Conns, NEW d \in Dialers, NEW n \in Nodes,
         n = Home(d), ReadAck(c, d)
  PROVE  IInv'
<1> DEFINE s == shake[<<c, d>>]
           good == verifyResp(Other(n), Head(s.up))
           t == [s EXCEPT !.handle = IF good THEN "add" ELSE "refused", !.up = Tail(@)]
<1>1. /\ s \in Shakes /\ Position(n, s) /\ Consent(n, s)
      /\ Open(c) => s.dial \notin Failed /\ s.handle \notin Failed
  BY OneShake
<1>2. s.handle = "awaitAck" /\ s.up # <<>>
  BY DEF ReadAck
<1>3. /\ s.up = <<Msg4(n)>> /\ s.dial \in {"add", "done"} /\ s.down = <<>>
      /\ Admissible(n) /\ Admissible(Other(n))
  BY <1>1, <1>2 DEF Position, Consent
<1>4. Tail(s.up) = <<>>
  BY <1>3
<1>5. shake' = [shake EXCEPT ![<<c, d>>] = t]
  BY <1>1 DEF ReadAck, Shakes
<1>6. /\ t.handle = IF good THEN "add" ELSE "refused"
      /\ t.dial = s.dial /\ t.up = <<>> /\ t.down = <<>>
      /\ t \in Shakes
  BY <1>1, <1>3, <1>4, Messages DEF Shakes, HandlePc, IInv
<1>7. Position(n, t)
  BY <1>3, <1>6 DEF Position
<1>8. Consent(n, t)
  BY <1>3, <1>6 DEF Consent
<1>9. \/ ClosePeer
      \/ UNCHANGED <<conn, unseen>> /\ t.handle = "add"
  BY <1>6 DEF ReadAck
<1>10. UNCHANGED <<identity, calls, registered, blocked>> /\ faults' \in 0 .. MaxFaults
  BY DEF ReadAck, IInv, RestOK
<1>11. Open(c) /\ t.handle = "add" => t.dial \notin Failed /\ t.handle \notin Failed
  BY <1>1, <1>6 DEF Failed
<1>12. /\ t.handle # "done" /\ s.handle # "done" /\ s.dial # "none"
       /\ t.dial = "done" <=> s.dial = "done"
  BY <1>2, <1>3, <1>6
<1> QED
  BY <1>5, <1>6, <1>7, <1>8, <1>9, <1>10, <1>11, <1>12, GoesOnOrCloses

LEMMA HandshakeBreaksStep ==
  ASSUME IInv, NEW c \in Conns, NEW d \in Dialers, NEW n \in Nodes,
         n = Home(d), HandshakeBreaks(c, d)
  PROVE  IInv'
<1> DEFINE s == shake[<<c, d>>]
<1>1. s \in Shakes /\ Position(n, s) /\ Consent(n, s)
  BY OneShake
<1>2. /\ ClosePeer /\ faults' \in 0 .. MaxFaults
      /\ UNCHANGED <<identity, calls, registered, blocked>>
  BY DEF HandshakeBreaks, IInv, RestOK
<1>3. CASE /\ s.dial \in {"awaitResp", "awaitReq"}
           /\ shake' = [shake EXCEPT ![<<c, d>>].dial = "refused"]
  <2> DEFINE t == [s EXCEPT !.dial = "refused"]
  <2>1. shake' = [shake EXCEPT ![<<c, d>>] = t]
    BY <1>1, <1>3 DEF Shakes
  <2>2. /\ t.dial = "refused" /\ t.handle = s.handle /\ t.up = s.up /\ t.down = s.down
        /\ t \in Shakes
    BY <1>1 DEF Shakes, DialPc
  <2>3. Position(n, t) /\ Consent(n, t)
    BY <1>1, <1>3, <2>2 DEF Position, Consent
  <2> QED
    BY <1>2, <2>1, <2>2, <2>3, GoesOnOrCloses
<1>4. CASE /\ s.handle \in {"read", "awaitAck"}
           /\ shake' = [shake EXCEPT ![<<c, d>>].handle = "refused"]
  <2> DEFINE t == [s EXCEPT !.handle = "refused"]
  <2>1. shake' = [shake EXCEPT ![<<c, d>>] = t]
    BY <1>1, <1>4 DEF Shakes
  <2>2. /\ t.handle = "refused" /\ t.dial = s.dial /\ t.up = s.up /\ t.down = s.down
        /\ t \in Shakes
    BY <1>1 DEF Shakes, HandlePc
  <2>3. Position(n, t) /\ Consent(n, t)
    BY <1>1, <1>4, <2>2 DEF Position, Consent
  <2> QED
    BY <1>2, <2>1, <2>2, <2>3, GoesOnOrCloses
<1> QED
  BY <1>3, <1>4 DEF HandshakeBreaks

LEMMA blockPeerStep ==
  ASSUME IInv, NEW c \in Conns, NEW d \in Dialers, NEW n \in Nodes,
         n = Home(d), blockPeer(c, d)
  PROVE  IInv'
<1> DEFINE s == shake[<<c, d>>]
<1>1. /\ s \in Shakes /\ Position(n, s) /\ Consent(n, s)
      /\ Open(c) => s.dial \notin Failed /\ s.handle \notin Failed
  BY OneShake
<1>2. UNCHANGED <<identity, calls, conn, unseen, registered, faults>>
  BY DEF blockPeer
<1>3. RestOK'
  <2>1. blocked' \in [Nodes -> {"no", "timed", "forever"}]
    BY OtherFacts DEF blockPeer, IInv, RestOK
  <2> QED
    BY <1>2, <2>1 DEF IInv, RestOK, identity, calls
<1>4. PICK t \in Shakes :
        /\ Position(n, t) /\ Consent(n, t)
        /\ shake' = [shake EXCEPT ![<<c, d>>] = t]
        /\ s.dial \in Failed \/ s.handle \in Failed
  <2>1. CASE /\ s.dial \in {"blockForever", "blockTimed"}
             /\ shake' = [shake EXCEPT ![<<c, d>>].dial = "refused"]
    <3> DEFINE t == [s EXCEPT !.dial = "refused"]
    <3>1. shake' = [shake EXCEPT ![<<c, d>>] = t]
      BY <1>1, <2>1 DEF Shakes
    <3>2. /\ t.dial = "refused" /\ t.handle = s.handle /\ t.up = s.up /\ t.down = s.down
          /\ t \in Shakes
      BY <1>1 DEF Shakes, DialPc
    <3>3. Position(n, t) /\ Consent(n, t)
      BY <1>1, <2>1, <3>2 DEF Position, Consent
    <3> QED
      BY <2>1, <3>1, <3>2, <3>3 DEF Failed
  <2>2. CASE /\ s.handle \in {"blockForever", "blockTimed"}
             /\ shake' = [shake EXCEPT ![<<c, d>>].handle = "refused"]
    <3> DEFINE t == [s EXCEPT !.handle = "refused"]
    <3>1. shake' = [shake EXCEPT ![<<c, d>>] = t]
      BY <1>1, <2>2 DEF Shakes
    <3>2. /\ t.handle = "refused" /\ t.dial = s.dial /\ t.up = s.up /\ t.down = s.down
          /\ t \in Shakes
      BY <1>1 DEF Shakes, HandlePc
    <3>3. Position(n, t) /\ Consent(n, t)
      BY <1>1, <2>2, <3>2 DEF Position, Consent
    <3> QED
      BY <2>2, <3>1, <3>2, <3>3 DEF Failed
  <2> QED
    BY <2>1, <2>2 DEF blockPeer
<1>5. ~Open(c)
  BY <1>1, <1>4
<1>6. ShakesOK'
  BY <1>2, <1>4, ShakeStepKept DEF identity, IInv
<1>7. OpenParts'
  BY <1>2, <1>4, <1>5, OpenPartsKept DEF IInv, calls
<1>8. MutualConsent'
  BY <1>2, ConsentKept DEF identity, IInv
<1> QED
  BY <1>3, <1>6, <1>7, <1>8 DEF IInv

\* Who registers a connection, either end, has the consent of both nodes.
LEMMA addPeerStep ==
  ASSUME IInv, NEW c \in Conns, NEW d \in Dialers, NEW n \in Nodes,
         n = Home(d), addPeer(c, d)
  PROVE  IInv'
<1> DEFINE s == shake[<<c, d>>]
<1>1. /\ s \in Shakes /\ Position(n, s) /\ Consent(n, s)
      /\ Open(c) => s.dial \notin Failed /\ s.handle \notin Failed
  BY OneShake
<1>2. UNCHANGED <<identity, calls, conn, unseen, blocked, faults>>
  BY DEF addPeer
<1>3. s.dial \in {"add", "done"} /\ Admissible(n) /\ Admissible(Other(n))
  BY <1>1 DEF addPeer, Position, Consent
<1>4. RestOK'
  <2>1. registered' \in [Nodes -> SUBSET Conns]
    BY OtherFacts DEF addPeer, IInv, RestOK
  <2> QED
    BY <1>2, <2>1 DEF IInv, RestOK, identity, calls
<1>5. MutualConsent'
  <2>1. \A m \in Nodes : Admissible(m)
    BY <1>3, OtherFacts
  <2>2. \A m \in Nodes : Admissible(m)'
    BY <1>2, <2>1, AdmissibleStays DEF identity
  <2> QED
    BY <2>2 DEF MutualConsent
<1>6. CASE /\ s.dial = "add"
           /\ registered' = [registered EXCEPT ![n] = @ \cup {c}]
           /\ shake' = [shake EXCEPT ![<<c, d>>].dial = "done"]
  <2> DEFINE t == [s EXCEPT !.dial = "done"]
  <2>1. shake' = [shake EXCEPT ![<<c, d>>] = t]
    BY <1>1, <1>6 DEF Shakes
  <2>2. /\ t.dial = "done" /\ t.handle = s.handle /\ t.up = s.up /\ t.down = s.down
        /\ t \in Shakes
    BY <1>1 DEF Shakes, DialPc
  <2>3. Position(n, t) /\ Consent(n, t)
    BY <1>1, <1>6, <2>2 DEF Position, Consent
  <2>4. ShakesOK'
    BY <1>2, <2>1, <2>2, <2>3, ShakeStepKept DEF identity, IInv
  <2>5. \A e \in Conns, f \in Dialers :
          /\ shake'[<<e, f>>].handle = shake[<<e, f>>].handle
          /\ shake'[<<e, f>>].dial = IF <<e, f>> = <<c, d>> THEN "done" ELSE shake[<<e, f>>].dial
    BY <2>1, <2>2 DEF IInv, ShakesOK
  <2>6. \A e \in Conns, m \in Nodes :
          e \in registered'[m] <=> e \in registered[m] \/ (e = c /\ m = n)
    BY <1>6 DEF IInv, RestOK
  <2>7. OpenIsSound'
    BY <1>2, <2>5 DEF IInv, OpenParts, OpenIsSound, Open, Failed
  <2>8. RegisteredByShake'
    <3> SUFFICES ASSUME NEW e \in Conns, NEW m \in Nodes, Open(e)
                 PROVE  e \in registered'[m] <=>
                          \E f \in Dialers : \/ Home(f) = m /\ shake'[<<e, f>>].dial = "done"
                                             \/ Home(f) = Other(m) /\ shake'[<<e, f>>].handle = "done"
      BY <1>2 DEF RegisteredByShake, Open
    <3>1. e \in registered[m] <=>
            \E f \in Dialers : \/ Home(f) = m /\ shake[<<e, f>>].dial = "done"
                               \/ Home(f) = Other(m) /\ shake[<<e, f>>].handle = "done"
      BY DEF IInv, OpenParts, RegisteredByShake
    <3> QED
      BY <2>5, <2>6, <3>1, OtherFacts
  <2>9. CallsAreFresh'
    BY <1>6, <1>2, <2>5 DEF IInv, OpenParts, CallsAreFresh, Open, calls
  <2> QED
    BY <1>4, <1>5, <2>4, <2>7, <2>8, <2>9 DEF IInv, OpenParts
<1>7. CASE /\ s.handle = "add"
           /\ registered' = [registered EXCEPT ![Other(n)] = @ \cup {c}]
           /\ shake' = [shake EXCEPT ![<<c, d>>].handle = "done"]
  <2> DEFINE t == [s EXCEPT !.handle = "done"]
  <2>1. shake' = [shake EXCEPT ![<<c, d>>] = t]
    BY <1>1, <1>7 DEF Shakes
  <2>2. /\ t.handle = "done" /\ t.dial = s.dial /\ t.up = s.up /\ t.down = s.down
        /\ t \in Shakes
    BY <1>1 DEF Shakes, HandlePc
  <2>3. Position(n, t) /\ Consent(n, t)
    BY <1>1, <1>3, <1>7, <2>2 DEF Position, Consent
  <2>4. ShakesOK'
    BY <1>2, <2>1, <2>2, <2>3, ShakeStepKept DEF identity, IInv
  <2>5. \A e \in Conns, f \in Dialers :
          /\ shake'[<<e, f>>].dial = shake[<<e, f>>].dial
          /\ shake'[<<e, f>>].handle = IF <<e, f>> = <<c, d>> THEN "done" ELSE shake[<<e, f>>].handle
    BY <2>1, <2>2 DEF IInv, ShakesOK
  <2>6. \A e \in Conns, m \in Nodes :
          e \in registered'[m] <=> e \in registered[m] \/ (e = c /\ Other(m) = n)
    BY <1>7, OtherFacts DEF IInv, RestOK
  <2>7. OpenIsSound'
    BY <1>2, <2>5 DEF IInv, OpenParts, OpenIsSound, Open, Failed
  <2>8. RegisteredByShake'
    <3> SUFFICES ASSUME NEW e \in Conns, NEW m \in Nodes, Open(e)
                 PROVE  e \in registered'[m] <=>
                          \E f \in Dialers : \/ Home(f) = m /\ shake'[<<e, f>>].dial = "done"
                                             \/ Home(f) = Other(m) /\ shake'[<<e, f>>].handle = "done"
      BY <1>2 DEF RegisteredByShake, Open
    <3>1. e \in registered[m] <=>
            \E f \in Dialers : \/ Home(f) = m /\ shake[<<e, f>>].dial = "done"
                               \/ Home(f) = Other(m) /\ shake[<<e, f>>].handle = "done"
      BY DEF IInv, OpenParts, RegisteredByShake
    <3> QED
      BY <2>5, <2>6, <3>1, OtherFacts
  <2>9. CallsAreFresh'
    BY <1>2, <2>5 DEF IInv, OpenParts, CallsAreFresh, Open, calls
  <2> QED
    BY <1>4, <1>5, <2>4, <2>7, <2>8, <2>9 DEF IInv, OpenParts
<1> QED
  BY <1>6, <1>7 DEF addPeer

\* libp2p tells of a connection that is not open any more.
LEMMA DisconnectedStep ==
  ASSUME IInv, NEW c \in Conns, NEW n \in Nodes, Disconnected(c, n)
  PROVE  IInv'
<1>1. UNCHANGED <<identity, calls, conn, blocked, shake, faults>>
  BY DEF Disconnected
<1>2. ~Open(c)
  BY DEF Disconnected, IInv, OpenParts, OpenIsSound
<1>3. RestOK'
  <2>1. unseen' \in [Conns -> SUBSET Nodes] /\ registered' \in [Nodes -> SUBSET Conns]
    BY DEF Disconnected, IInv, RestOK
  <2> QED
    BY <1>1, <2>1 DEF IInv, RestOK, identity, calls
<1>4. ShakesOK'
  BY <1>1, ShakesKept DEF IInv, ShakesOK, identity
<1>5. \A e \in Conns : e # c =>
        unseen'[e] = unseen[e] /\ \A m \in Nodes : e \in registered'[m] <=> e \in registered[m]
  BY DEF Disconnected, IInv, RestOK
<1>6. OpenParts'
  BY <1>1, <1>2, <1>5 DEF IInv, OpenParts, OpenIsSound, RegisteredByShake, CallsAreFresh,
     Open, calls
<1>7. MutualConsent'
  <2>1. \A m \in Nodes : registered'[m] \subseteq registered[m]
    BY DEF Disconnected, IInv, RestOK
  <2> QED
    BY <1>1, <2>1, ConsentKept DEF IInv, identity
<1> QED
  BY <1>3, <1>4, <1>6, <1>7 DEF IInv

LEMMA BreakConnStep ==
  ASSUME IInv, NEW c \in Conns, BreakConn(c)
  PROVE  IInv'
<1>1. UNCHANGED <<identity, calls, registered, blocked, shake>>
  BY DEF BreakConn
<1>2. RestOK'
  <2>1. faults' \in 0 .. MaxFaults
    BY Bounds DEF BreakConn, IInv, RestOK
  <2>2. /\ conn' \in [Conns -> {"free", "open", "closed"}]
        /\ unseen' \in [Conns -> SUBSET Nodes]
    BY DEF BreakConn, IInv, RestOK
  <2> QED
    BY <1>1, <2>1, <2>2 DEF IInv, RestOK, identity, calls
<1>3. ShakesOK'
  BY <1>1, ShakesKept DEF IInv, ShakesOK, identity
<1>4. \A e \in Conns : Open(e)' => Open(e) /\ unseen'[e] = unseen[e]
  BY DEF BreakConn, Open, IInv, RestOK
<1>5. OpenParts'
  BY <1>1, <1>4 DEF IInv, OpenParts, OpenIsSound, RegisteredByShake, CallsAreFresh, calls
<1>6. MutualConsent'
  BY <1>1, ConsentKept DEF IInv, identity
<1> QED
  BY <1>2, <1>3, <1>5, <1>6 DEF IInv

\* A handshake that there is not.
LEMMA NoShakeFacts ==
  ASSUME NEW n \in Nodes
  PROVE  /\ NoShake \in Shakes /\ Position(n, NoShake) /\ Consent(n, NoShake)
         /\ NoShake.dial = "none" /\ NoShake.handle = "none"
<1>1. NoShake \in Shakes
  BY DEF NoShake, Shakes, DialPc, HandlePc
<1> QED
  BY <1>1 DEF Position, Consent, NoShake

\* A slot that is another connection from now on: its handshakes start afresh.
LEMMA DialSucceedsStep ==
  ASSUME IInv, NEW n \in Nodes, DialSucceeds(n)
  PROVE  IInv'
<1>1. /\ NewConn \in Conns /\ unseen[NewConn] = {}
      /\ \A m \in Nodes : NewConn \notin registered[m]
  BY NewConnFacts DEF DialSucceeds, Spent
<1>2. /\ conn' = [conn EXCEPT ![NewConn] = "open"]
      /\ UNCHANGED <<identity, dials, unseen, registered, blocked, faults>>
      /\ shake' = [h \in Conns \X Dialers |-> IF h[1] = NewConn THEN NoShake ELSE shake[h]]
      /\ Dialled(n, "stream")
  BY DEF DialSucceeds
<1> HIDE DEF NewConn
<1>3. /\ call' \in [Dialers -> {"none", "dial", "stream"}]
      /\ \A f \in Dialers : call'[f] # "none" => call[f] # "none"
      /\ passed' \in [Nodes -> SUBSET Nodes]
  BY <1>2 DEF Dialled, Waiting, IInv, RestOK
<1>4. RestOK'
  BY <1>1, <1>2, <1>3 DEF IInv, RestOK, identity
<1>5. NoShake \in Shakes /\ NoShake.dial = "none" /\ NoShake.handle = "none"
      /\ \A f \in Dialers : Position(Home(f), NoShake) /\ Consent(Home(f), NoShake)
  BY HandshakeAssumption, HomeFacts, NoShakeFacts
<1>6. shake' \in [Conns \X Dialers -> Shakes]
  BY <1>2, <1>5 DEF IInv, ShakesOK
<1>7. \A e \in Conns, f \in Dialers :
        shake'[<<e, f>>] = IF e = NewConn THEN NoShake ELSE shake[<<e, f>>]
  BY <1>2
<1>8. ShakesOK'
  BY <1>2, <1>5, <1>6, <1>7, ShakesKept DEF IInv, identity
<1>9. \A e \in Conns : e # NewConn => (Open(e)' <=> Open(e))
  BY <1>1, <1>2 DEF Open, IInv, RestOK
<1>10. OpenIsSound'
  BY <1>1, <1>2, <1>5, <1>7, <1>9 DEF IInv, OpenParts, OpenIsSound, Failed
<1>11. RegisteredByShake'
  <2> SUFFICES ASSUME NEW e \in Conns, NEW m \in Nodes, Open(e)'
               PROVE  e \in registered[m] <=>
                        \E f \in Dialers : \/ Home(f) = m /\ shake'[<<e, f>>].dial = "done"
                                           \/ Home(f) = Other(m) /\ shake'[<<e, f>>].handle = "done"
    BY <1>2 DEF RegisteredByShake
  <2>1. CASE e = NewConn
    BY <1>1, <1>5, <1>7, <2>1
  <2>2. CASE e # NewConn
    BY <1>7, <1>9, <2>2 DEF IInv, OpenParts, RegisteredByShake
  <2> QED
    BY <2>1, <2>2
<1>12. CallsAreFresh'
  BY <1>3, <1>5, <1>7, <1>9 DEF IInv, OpenParts, CallsAreFresh
<1>13. MutualConsent'
  BY <1>2, ConsentKept DEF IInv, identity
<1> QED
  BY <1>4, <1>8, <1>10, <1>11, <1>12, <1>13 DEF IInv, OpenParts

-----------------------------------------------------------------------------
(***************************************************************************)
(* The theorems.                                                           *)
(***************************************************************************)
LEMMA NextIInv == IInv /\ [Next]_vars => IInv'
<1> SUFFICES ASSUME IInv, [Next]_vars PROVE IInv'
  OBVIOUS
<1>1. CASE UNCHANGED vars
  <2>1. UNCHANGED <<peerType, sig, staked, call, conn, unseen, registered, shake>> /\ RestOK'
    BY <1>1 DEF vars, identity, calls, IInv, RestOK
  <2> QED
    BY <2>1, ElsewhereStep
<1>2. ASSUME NEW c \in Conns, NEW d \in Dialers, ShakeStep(c, d)
      PROVE  IInv'
  BY <1>2, HomeFacts, ReadRespStep, ReadReqStep, HandleReqStep, ReadAckStep,
     HandshakeBreaksStep, blockPeerStep, addPeerStep DEF ShakeStep
<1>3. ASSUME NEW d \in Dialers, DialKnown(d) \/ DialBegins(d) \/ StreamStep(d)
      PROVE  IInv'
  BY <1>3, DialKnownStep, DialBeginsStep, NewStreamStep, NewStreamEndsStep DEF StreamStep
<1>4. ASSUME NEW n \in Nodes, DialStep(n)
      PROVE  IInv'
  BY <1>4, DialNotOpenStep, DialSucceedsStep DEF DialStep
<1>5. ASSUME NEW n \in Nodes, isBlockedExpires(n)
      PROVE  IInv'
  <2>1. UNCHANGED <<identity, calls, conn, unseen, registered, shake, faults>> /\ RestOK'
    BY <1>5 DEF isBlockedExpires, IInv, RestOK, identity, calls
  <2> QED
    BY <2>1, ElsewhereStep DEF identity, calls
<1>6. ASSUME NEW n \in Nodes, Stake(n)
      PROVE  IInv'
  <2>1. /\ UNCHANGED <<peerType, sig, call, conn, unseen, registered, shake>>
        /\ staked \subseteq staked' /\ RestOK'
    BY <1>6 DEF Stake, IInv, RestOK, calls
  <2> QED
    BY <2>1, ElsewhereStep
<1> QED
  BY <1>1, <1>2, <1>3, <1>4, <1>5, <1>6, BreakConnStep, DisconnectedStep DEF Next

\* Whatever the interleaving of handshakes, dials, breaks and blocks, the two
\* ends of a handshake are at positions that fit each other, only the messages
\* that the reader expects are under way, and an end is past a check only when the
\* node it checked passes it.
THEOREM Invariance == Spec => []IInv
  BY InitIInv, NextIInv, PTL DEF Spec

\* The state keeps its types, and messages come in the order in which the other
\* end reads them.
THEOREM TypeCorrect == Spec => []TypeOK
<1>1. IInv => TypeOK
  <2> SUFFICES ASSUME IInv PROVE TypeOK
    OBVIOUS
  <2>1. ASSUME NEW c \in Conns, NEW d \in Dialers
        PROVE  /\ shake[<<c, d>>].dial \in DialPc
               /\ shake[<<c, d>>].handle \in HandlePc
               /\ shake[<<c, d>>].up \in {<<>>} \cup {<<m>> : m \in Req \cup Resp}
               /\ \/ shake[<<c, d>>].down = <<>>
                  \/ Len(shake[<<c, d>>].down) = 1 /\ shake[<<c, d>>].down[1] \in Req \cup Resp
                  \/ /\ Len(shake[<<c, d>>].down) = 2
                     /\ shake[<<c, d>>].down[1] \in Resp /\ shake[<<c, d>>].down[2] \in Req
    <3> DEFINE n == Home(d)
    <3>1. n \in Nodes /\ shake[<<c, d>>] \in Shakes /\ Position(n, shake[<<c, d>>])
      BY HomeFacts, OneShake
    <3>2. Msg1(n) \in Req /\ Msg2(n) \in Resp /\ Msg3(n) \in Req /\ Msg4(n) \in Resp
      BY <3>1, Messages DEF IInv
    <3>3. shake[<<c, d>>].up \in {<<>>} \cup {<<m>> : m \in Req \cup Resp}
      BY <3>1, <3>2 DEF Position
    <3>4. shake[<<c, d>>].down \in {<<>>, <<Msg2(n), Msg3(n)>>, <<Msg3(n)>>}
      BY <3>1 DEF Position
    <3>5. CASE shake[<<c, d>>].down = <<>>
      BY <3>1, <3>3, <3>5 DEF Shakes
    <3>6. CASE shake[<<c, d>>].down = <<Msg3(n)>>
      <4>1. Len(shake[<<c, d>>].down) = 1 /\ shake[<<c, d>>].down[1] = Msg3(n)
        BY <3>6
      <4> QED
        BY <3>1, <3>2, <3>3, <4>1 DEF Shakes
    <3>7. CASE shake[<<c, d>>].down = <<Msg2(n), Msg3(n)>>
      <4>1. /\ Len(shake[<<c, d>>].down) = 2
            /\ shake[<<c, d>>].down[1] = Msg2(n) /\ shake[<<c, d>>].down[2] = Msg3(n)
        BY <3>7
      <4> QED
        BY <3>1, <3>2, <3>3, <4>1 DEF Shakes
    <3> QED
      BY <3>4, <3>5, <3>6, <3>7
  <2>2. DOMAIN shake = Conns \X Dialers
    BY DEF IInv, ShakesOK
  <2>3. \A h \in Conns \X Dialers :
          /\ shake[h].dial \in DialPc
          /\ shake[h].handle \in HandlePc
          /\ shake[h].up \in {<<>>} \cup {<<m>> : m \in Req \cup Resp}
          /\ \/ shake[h].down = <<>>
             \/ Len(shake[h].down) = 1 /\ shake[h].down[1] \in Req \cup Resp
             \/ Len(shake[h].down) = 2 /\ shake[h].down[1] \in Resp /\ shake[h].down[2] \in Req
    <3> SUFFICES ASSUME NEW h \in Conns \X Dialers
                 PROVE  /\ shake[h].dial \in DialPc
                        /\ shake[h].handle \in HandlePc
                        /\ shake[h].up \in {<<>>} \cup {<<m>> : m \in Req \cup Resp}
                        /\ \/ shake[h].down = <<>>
                           \/ Len(shake[h].down) = 1 /\ shake[h].down[1] \in Req \cup Resp
                           \/ /\ Len(shake[h].down) = 2
                              /\ shake[h].down[1] \in Resp /\ shake[h].down[2] \in Req
      OBVIOUS
    <3>1. PICK c \in Conns, d \in Dialers : h = <<c, d>>
      OBVIOUS
    <3> QED
      BY <2>1, <3>1
  <2>4. RestOK
    BY DEF IInv
  <2> QED
    BY <2>2, <2>3, <2>4 DEF TypeOK, RestOK
<1> QED
  BY <1>1, Invariance, PTL

\* Whoever is registered at either end has a signature of its own and, as a
\* provider, a stake, and so has the node that registered it: neither Connect nor
\* Handle gets to addPeer before both requests have been verified.
THEOREM Consented == Spec => []MutualConsent
  BY Invariance, PTL DEF IInv

\* With no handshake under way and no notification to come, an open connection is
\* registered at both ends or at neither.
THEOREM Agreement == Spec => []EndsAgree
<1>1. IInv => EndsAgree
  <2> SUFFICES ASSUME IInv, Settled, NEW c \in Conns, Open(c), NEW n \in Nodes
               PROVE  c \in registered[n] <=> c \in registered[Other(n)]
    BY OtherFacts DEF EndsAgree
  <2>1. ASSUME NEW d \in Dialers
        PROVE  shake[<<c, d>>].dial = "done" <=> shake[<<c, d>>].handle = "done"
    <3>1. /\ shake[<<c, d>>].dial \in {"none", "done"}
          /\ shake[<<c, d>>].handle \in {"none", "done"}
      BY HomeFacts, OneShake DEF Settled, Ended, Failed
    <3> QED
      BY <3>1, HomeFacts, OneShake DEF Position
  <2>2. ASSUME NEW k \in Nodes
        PROVE  c \in registered[k] <=> \E d \in Dialers : shake[<<c, d>>].dial = "done"
    <3>1. \A d \in Dialers : Home(d) = k \/ Home(d) = Other(k)
      BY HomeFacts, OtherFacts
    <3>2. c \in registered[k] <=>
            \E d \in Dialers : \/ Home(d) = k /\ shake[<<c, d>>].dial = "done"
                               \/ Home(d) = Other(k) /\ shake[<<c, d>>].handle = "done"
      BY DEF IInv, OpenParts, RegisteredByShake
    <3> QED
      BY <2>1, <3>1, <3>2
  <2> QED
    BY <2>2, OtherFacts
<1> QED
  BY <1>1, Invariance, PTL

-----------------------------------------------------------------------------
(***************************************************************************)
(* What an end is refused or blocked for.                                  *)
(***************************************************************************)
\* An end that has read the other one's answer goes on.
AnswerAccepted ==
  \A c \in Conns, d \in Dialers :
    /\ ReadResp(c, d) => shake'[<<c, d>>].dial = "awaitReq"
    /\ ReadAck(c, d) => shake'[<<c, d>>].handle = "add"

\* Between two nodes that run this code verifyResp never fails: the answer that is
\* read is the answer to the reader's own request, at both ends.  What refuses a
\* handshake is a request that does not verify or a connection that closes.
THEOREM AnswersPass == Spec => [][AnswerAccepted]_vars
<1>1. ASSUME IInv, NEW c \in Conns, NEW d \in Dialers, NEW n \in Nodes,
         n = Home(d), ReadResp(c, d)
      PROVE  shake'[<<c, d>>].dial = "awaitReq"
  <2> DEFINE s == shake[<<c, d>>]
  <2>1. s \in Shakes /\ Position(n, s)
    BY <1>1, OneShake
  <2>2. s.dial = "awaitResp" /\ s.down # <<>>
    BY <1>1 DEF ReadResp
  <2>3. s.down = <<Msg2(n), Msg3(n)>>
    BY <2>1, <2>2 DEF Position
  <2>4. verifyResp(n, Head(s.down))
    BY <2>3 DEF verifyResp, Msg2, Response, Request
  <2>5. shake \in [Conns \X Dialers -> Shakes]
    BY <1>1 DEF IInv, ShakesOK
  <2> QED
    BY <1>1, <2>1, <2>4, <2>5 DEF ReadResp, Shakes
<1>2. ASSUME IInv, NEW c \in Conns, NEW d \in Dialers, NEW n \in Nodes,
         n = Home(d), ReadAck(c, d)
      PROVE  shake'[<<c, d>>].handle = "add"
  <2> DEFINE s == shake[<<c, d>>]
  <2>1. s \in Shakes /\ Position(n, s)
    BY <1>2, OneShake
  <2>2. s.handle = "awaitAck" /\ s.up # <<>>
    BY <1>2 DEF ReadAck
  <2>3. s.up = <<Msg4(n)>>
    BY <2>1, <2>2 DEF Position
  <2>4. verifyResp(Other(n), Head(s.up))
    BY <2>3 DEF verifyResp, Msg4, Response, Request
  <2>5. shake \in [Conns \X Dialers -> Shakes]
    BY <1>2 DEF IInv, ShakesOK
  <2> QED
    BY <1>2, <2>1, <2>4, <2>5 DEF ReadAck, Shakes
<1>3. IInv /\ [Next]_vars => [AnswerAccepted]_vars
  BY <1>1, <1>2, HomeFacts DEF AnswerAccepted
<1> QED
  BY <1>3, Invariance, PTL DEF Spec

\* The two kinds of block, by the key of the node that is blocked.
Cause(n, pc) ==
  /\ pc = "blockForever" => sig[n] # n
  /\ pc = "blockTimed" => sig[n] = n

\* Only a node that signs with another's key is blocked for ever, and about one
\* that does there is no other verdict on the way.
BlockInv ==
  /\ \A n \in Nodes : blocked[n] = "forever" => sig[Other(n)] # Other(n)
  /\ \A n \in Nodes : blocked[n] = "timed" => sig[Other(n)] = Other(n)
  /\ \A c \in Conns, d \in Dialers : /\ Cause(Other(Home(d)), shake[<<c, d>>].dial)
                                     /\ Cause(Home(d), shake[<<c, d>>].handle)

\* A verdict has its cause.
LEMMA VerdictCause ==
  ASSUME RestOK, NEW n \in Nodes, NEW v \in verifyReq(n, Request(n)),
         NEW ok \in {"add", "awaitAck"}
  PROVE  Cause(n, After(v, ok))
<1>1. CASE sig[n] # n
  <2>1. v = "blockForever"
    BY <1>1 DEF verifyReq, Verify, Request
  <2> QED
    BY <1>1, <2>1 DEF After, Cause
<1>2. CASE sig[n] = n
  <2>1. v \in {"ok", "blockTimed", "rpcFails"}
    <3>1. CASE peerType[n] = "provider"
      BY <1>2, <3>1 DEF verifyReq, Verify, Request, CheckProviderRegistered
    <3>2. CASE peerType[n] # "provider"
      BY <1>2, <3>2 DEF verifyReq, Verify, Request
    <3> QED
      BY <3>1, <3>2
  <2> QED
    BY <1>2, <2>1 DEF After, Cause
<1> QED
  BY <1>1, <1>2

\* Steps that give no verdict and block nobody, and those whose verdicts have a cause.
LEMMA CauseKept ==
  ASSUME BlockInv, sig' = sig,
         \A n \in Nodes : \/ blocked'[n] \in {blocked[n], "no"}
                          \/ blocked'[n] = "forever" /\ sig[Other(n)] # Other(n)
                          \/ blocked'[n] = "timed" /\ sig[Other(n)] = Other(n),
         \A c \in Conns, d \in Dialers :
           /\ \/ shake'[<<c, d>>].dial = shake[<<c, d>>].dial
              \/ Cause(Other(Home(d)), shake'[<<c, d>>].dial)
           /\ \/ shake'[<<c, d>>].handle = shake[<<c, d>>].handle
              \/ Cause(Home(d), shake'[<<c, d>>].handle)
  PROVE  BlockInv'
<1>1. \A n \in Nodes : /\ blocked'[n] = "forever" => sig[Other(n)] # Other(n)
                       /\ blocked'[n] = "timed" => sig[Other(n)] = Other(n)
  BY DEF BlockInv
<1>2. \A c \in Conns, d \in Dialers : /\ Cause(Other(Home(d)), shake'[<<c, d>>].dial)
                                      /\ Cause(Home(d), shake'[<<c, d>>].handle)
  BY DEF BlockInv
<1> QED
  BY <1>1, <1>2 DEF BlockInv, Cause

\* The same for the step of one handshake.
LEMMA CauseOfStep ==
  ASSUME IInv, BlockInv, sig' = sig, NEW c \in Conns, NEW d \in Dialers, NEW n \in Nodes,
         n = Home(d), NEW t,
         shake' = [shake EXCEPT ![<<c, d>>] = t],
         t.dial = shake[<<c, d>>].dial \/ Cause(Other(n), t.dial),
         t.handle = shake[<<c, d>>].handle \/ Cause(n, t.handle),
         \A m \in Nodes : \/ blocked'[m] \in {blocked[m], "no"}
                          \/ blocked'[m] = "forever" /\ sig[Other(m)] # Other(m)
                          \/ blocked'[m] = "timed" /\ sig[Other(m)] = Other(m)
  PROVE  BlockInv'
<1>1. \A e \in Conns, f \in Dialers :
        shake'[<<e, f>>] = IF e = c /\ f = d THEN t ELSE shake[<<e, f>>]
  BY DEF IInv, ShakesOK
<1> QED
  BY <1>1, CauseKept

\* The steps of a handshake other than the verdicts.
LEMMA PlainBlockInv ==
  ASSUME IInv, BlockInv, NEW c \in Conns, NEW d \in Dialers, NEW n \in Nodes,
         n = Home(d), ReadResp(c, d) \/ ReadAck(c, d) \/ HandshakeBreaks(c, d) \/ addPeer(c, d)
  PROVE  BlockInv'
<1> DEFINE s == shake[<<c, d>>]
<1>1. s \in Shakes
  BY OneShake
<1>2. sig' = sig /\ blocked' = blocked
  BY DEF ReadResp, ReadAck, HandshakeBreaks, addPeer, identity
<1>3. /\ \A pc \in {"awaitReq", "refused", "done"} : Cause(Other(n), pc)
      /\ \A pc \in {"add", "refused", "done"} : Cause(n, pc)
  BY DEF Cause
<1>4. ASSUME NEW pc \in {"awaitReq", "refused", "done"}, NEW q,
             shake' = [shake EXCEPT ![<<c, d>>] = [s EXCEPT !.dial = pc, !.down = q]]
      PROVE  BlockInv'
  <2> DEFINE t == [s EXCEPT !.dial = pc, !.down = q]
  <2>1. t.dial = pc /\ t.handle = s.handle
    BY <1>1 DEF Shakes
  <2> HIDE DEF t
  <2> QED
    BY <1>2, <1>3, <1>4, <2>1, CauseOfStep DEF t
<1>5. ASSUME NEW pc \in {"add", "refused", "done"}, NEW q,
             shake' = [shake EXCEPT ![<<c, d>>] = [s EXCEPT !.handle = pc, !.up = q]]
      PROVE  BlockInv'
  <2> DEFINE t == [s EXCEPT !.handle = pc, !.up = q]
  <2>1. t.handle = pc /\ t.dial = s.dial
    BY <1>1 DEF Shakes
  <2> HIDE DEF t
  <2> QED
    BY <1>2, <1>3, <1>5, <2>1, CauseOfStep DEF t
<1>6. CASE ReadResp(c, d)
  <2>1. PICK pc \in {"awaitReq", "refused"} :
          shake' = [shake EXCEPT ![<<c, d>>].dial = pc, ![<<c, d>>].down = Tail(@)]
    BY <1>6 DEF ReadResp
  <2>2. shake' = [shake EXCEPT ![<<c, d>>] = [s EXCEPT !.dial = pc, !.down = Tail(s.down)]]
    BY <1>1, <2>1 DEF Shakes
  <2> QED
    BY <1>4, <2>2
<1>7. CASE ReadAck(c, d)
  <2>1. PICK pc \in {"add", "refused"} :
          shake' = [shake EXCEPT ![<<c, d>>].handle = pc, ![<<c, d>>].up = Tail(@)]
    BY <1>7 DEF ReadAck
  <2>2. shake' = [shake EXCEPT ![<<c, d>>] = [s EXCEPT !.handle = pc, !.up = Tail(s.up)]]
    BY <1>1, <2>1 DEF Shakes
  <2> QED
    BY <1>5, <2>2
<1>8. CASE HandshakeBreaks(c, d) \/ addPeer(c, d)
  <2>1. \/ \E pc \in {"refused", "done"} : shake' = [shake EXCEPT ![<<c, d>>].dial = pc]
        \/ \E pc \in {"refused", "done"} : shake' = [shake EXCEPT ![<<c, d>>].handle = pc]
    BY <1>8 DEF HandshakeBreaks, addPeer
  <2>2. ASSUME NEW pc \in {"refused", "done"}, shake' = [shake EXCEPT ![<<c, d>>].dial = pc]
        PROVE  BlockInv'
    <3>1. shake' = [shake EXCEPT ![<<c, d>>] = [s EXCEPT !.dial = pc, !.down = s.down]]
      BY <1>1, <2>2 DEF Shakes
    <3> QED
      BY <1>4, <3>1
  <2>3. ASSUME NEW pc \in {"refused", "done"}, shake' = [shake EXCEPT ![<<c, d>>].handle = pc]
        PROVE  BlockInv'
    <3>1. shake' = [shake EXCEPT ![<<c, d>>] = [s EXCEPT !.handle = pc, !.up = s.up]]
      BY <1>1, <2>3 DEF Shakes
    <3> QED
      BY <1>5, <3>1
  <2> QED
    BY <2>1, <2>2, <2>3
<1> QED
  BY <1>6, <1>7, <1>8

LEMMA ReadReqBlockInv ==
  ASSUME IInv, BlockInv, NEW c \in Conns, NEW d \in Dialers, NEW n \in Nodes,
         n = Home(d), ReadReq(c, d)
  PROVE  BlockInv'
<1> DEFINE s == shake[<<c, d>>]
           m == Other(n)
<1>1. s \in Shakes /\ Position(n, s) /\ s.dial = "awaitReq"
  BY OneShake DEF ReadReq
<1>2. Head(s.down) = Request(m)
  BY <1>1 DEF Position, Msg3
<1>3. PICK v \in verifyReq(m, Request(m)) :
        shake' = [shake EXCEPT ![<<c, d>>].dial = After(v, "add"), ![<<c, d>>].down = Tail(@),
                   ![<<c, d>>].up = IF v = "ok" /\ Open(c)
                                      THEN Append(@, Response(m, Request(m))) ELSE @]
  BY <1>2 DEF ReadReq
<1> DEFINE q == IF v = "ok" /\ Open(c) THEN Append(s.up, Response(m, Request(m))) ELSE s.up
<1> DEFINE t == [s EXCEPT !.dial = After(v, "add"), !.down = Tail(@), !.up = q]
<1>4. shake' = [shake EXCEPT ![<<c, d>>] = t]
  BY <1>1, <1>3 DEF Shakes
<1>5. t.dial = After(v, "add") /\ t.handle = s.handle
  BY <1>1 DEF Shakes
<1>6. Cause(m, After(v, "add"))
  BY OtherFacts, VerdictCause DEF IInv
<1>7. sig' = sig /\ blocked' = blocked
  BY DEF ReadReq, identity
<1> HIDE DEF t
<1> QED
  BY <1>4, <1>5, <1>6, <1>7, CauseOfStep

LEMMA HandleReqBlockInv ==
  ASSUME IInv, BlockInv, NEW c \in Conns, NEW d \in Dialers, NEW n \in Nodes,
         n = Home(d), HandleReq(c, d)
  PROVE  BlockInv'
<1> DEFINE s == shake[<<c, d>>]
<1>1. s \in Shakes /\ Position(n, s) /\ s.handle = "read"
  BY OneShake DEF HandleReq
<1>2. Head(s.up) = Request(n)
  BY <1>1 DEF Position, Msg1
<1>3. PICK v \in verifyReq(n, Request(n)) :
        shake' = [shake EXCEPT ![<<c, d>>].handle = After(v, "awaitAck"),
                   ![<<c, d>>].up = Tail(@),
                   ![<<c, d>>].down = IF v = "ok" /\ Open(c)
                       THEN <<Response(n, Request(n)), Request(Other(n))>> ELSE @]
  BY <1>2 DEF HandleReq
<1> DEFINE q == IF v = "ok" /\ Open(c) THEN <<Response(n, Request(n)), Request(Other(n))>>
                ELSE s.down
<1> DEFINE t == [s EXCEPT !.handle = After(v, "awaitAck"), !.up = Tail(@), !.down = q]
<1>4. shake' = [shake EXCEPT ![<<c, d>>] = t]
  BY <1>1, <1>3 DEF Shakes
<1>5. t.handle = After(v, "awaitAck") /\ t.dial = s.dial
  BY <1>1 DEF Shakes
<1>6. Cause(n, After(v, "awaitAck"))
  BY VerdictCause DEF IInv
<1>7. sig' = sig /\ blocked' = blocked
  BY DEF HandleReq, identity
<1> HIDE DEF t
<1> QED
  BY <1>4, <1>5, <1>6, <1>7, CauseOfStep

LEMMA blockPeerBlockInv ==
  ASSUME IInv, BlockInv, NEW c \in Conns, NEW d \in Dialers, NEW n \in Nodes,
         n = Home(d), blockPeer(c, d)
  PROVE  BlockInv'
<1> DEFINE s == shake[<<c, d>>]
<1>1. s \in Shakes /\ blocked \in [Nodes -> {"no", "timed", "forever"}]
  BY OneShake DEF IInv, RestOK
<1>2. sig' = sig
  BY DEF blockPeer, identity
<1>3. Cause(Other(n), s.dial) /\ Cause(n, s.handle)
  BY DEF BlockInv
<1>4. Cause(Other(n), "refused") /\ Cause(n, "refused")
  BY DEF Cause
<1>5. CASE /\ s.dial \in {"blockForever", "blockTimed"}
           /\ blocked' = [blocked EXCEPT ![n] = IF s.dial = "blockForever" THEN "forever" ELSE "timed"]
           /\ shake' = [shake EXCEPT ![<<c, d>>].dial = "refused"]
  <2> DEFINE t == [s EXCEPT !.dial = "refused"]
  <2>1. shake' = [shake EXCEPT ![<<c, d>>] = t] /\ t.dial = "refused" /\ t.handle = s.handle
    BY <1>1, <1>5 DEF Shakes
  <2>2. \A k \in Nodes : \/ blocked'[k] \in {blocked[k], "no"}
                         \/ blocked'[k] = "forever" /\ sig[Other(k)] # Other(k)
                         \/ blocked'[k] = "timed" /\ sig[Other(k)] = Other(k)
    BY <1>1, <1>3, <1>5 DEF Cause
  <2> HIDE DEF t
  <2> QED
    BY <1>2, <1>4, <2>1, <2>2, CauseOfStep
<1>6. CASE /\ s.handle \in {"blockForever", "blockTimed"}
           /\ blocked' = [blocked EXCEPT ![Other(n)] =
                            IF s.handle = "blockForever" THEN "forever" ELSE "timed"]
           /\ shake' = [shake EXCEPT ![<<c, d>>].handle = "refused"]
  <2> DEFINE t == [s EXCEPT !.handle = "refused"]
  <2>1. shake' = [shake EXCEPT ![<<c, d>>] = t] /\ t.handle = "refused" /\ t.dial = s.dial
    BY <1>1, <1>6 DEF Shakes
  <2>2. \A k \in Nodes : \/ blocked'[k] \in {blocked[k], "no"}
                         \/ blocked'[k] = "forever" /\ sig[Other(k)] # Other(k)
                         \/ blocked'[k] = "timed" /\ sig[Other(k)] = Other(k)
    BY <1>1, <1>3, <1>6, OtherFacts DEF Cause
  <2> HIDE DEF t
  <2> QED
    BY <1>2, <1>4, <2>1, <2>2, CauseOfStep
<1> QED
  BY <1>5, <1>6 DEF blockPeer

LEMMA NewShakeBlockInv ==
  ASSUME IInv, BlockInv,
         \/ \E c \in Conns, d \in Dialers : NewStream(c, d)
         \/ \E n \in Nodes : DialSucceeds(n)
  PROVE  BlockInv'
<1>1. shake \in [Conns \X Dialers -> Shakes]
  BY DEF IInv, ShakesOK
<1>2. sig' = sig /\ blocked' = blocked
  BY DEF NewStream, DialSucceeds, identity
<1>3. \A e \in Conns, f \in Dialers : \/ shake'[<<e, f>>] = shake[<<e, f>>]
                                     \/ /\ shake'[<<e, f>>].dial \in {"none", "awaitResp"}
                                        /\ shake'[<<e, f>>].handle \in {"none", "read"}
  <2>1. ASSUME NEW c \in Conns, NEW d \in Dialers, NewStream(c, d),
               NEW e \in Conns, NEW f \in Dialers
        PROVE  \/ shake'[<<e, f>>] = shake[<<e, f>>]
               \/ /\ shake'[<<e, f>>].dial = "awaitResp"
                  /\ shake'[<<e, f>>].handle = "read"
    BY <1>1, <2>1 DEF NewStream, Handshake
  <2>2. ASSUME NEW n \in Nodes, DialSucceeds(n), NEW e \in Conns, NEW f \in Dialers
        PROVE  shake'[<<e, f>>] \in {shake[<<e, f>>], NoShake}
    BY <2>2 DEF DialSucceeds
  <2>3. NoShake.dial = "none" /\ NoShake.handle = "none"
    BY DEF NoShake
  <2> QED
    BY <2>1, <2>2, <2>3
<1>4. \A pc \in {"none", "awaitResp", "read"} : \A m : Cause(m, pc)
  BY DEF Cause
<1> QED
  BY <1>2, <1>3, <1>4, CauseKept

LEMMA BlockInvStep ==
  ASSUME IInv, BlockInv, [Next]_vars
  PROVE  BlockInv'
<1>1. CASE UNCHANGED <<sig, blocked, shake>>
  BY <1>1, CauseKept
<1>2. ASSUME NEW n \in Nodes, isBlockedExpires(n)
      PROVE  BlockInv'
  <2>1. sig' = sig /\ shake' = shake /\ \A m \in Nodes : blocked'[m] \in {blocked[m], "no"}
    BY <1>2 DEF isBlockedExpires, identity, IInv, RestOK
  <2> QED
    BY <2>1, CauseKept
<1>3. ASSUME NEW n \in Nodes,
             DialFails(n) \/ Stake(n) \/ \E m \in Nodes : InterceptSecured(n, m)
      PROVE  UNCHANGED <<sig, blocked, shake>>
  BY <1>3 DEF DialFails, Stake, InterceptSecured, identity
<1>4. ASSUME NEW d \in Dialers,
             DialKnown(d) \/ DialBegins(d) \/ NewStreamDials(d) \/ NewStreamFails(d)
      PROVE  UNCHANGED <<sig, blocked, shake>>
  BY <1>4 DEF DialKnown, DialBegins, NewStreamDials, NewStreamFails, identity
<1>5. ASSUME NEW c \in Conns, BreakConn(c) \/ \E n \in Nodes : Disconnected(c, n)
      PROVE  UNCHANGED <<sig, blocked, shake>>
  BY <1>5 DEF BreakConn, Disconnected, identity
<1>6. CASE UNCHANGED vars
  BY <1>1, <1>6 DEF vars, identity
<1>7. ASSUME NEW c \in Conns, NEW d \in Dialers, ShakeStep(c, d)
      PROVE  BlockInv'
  BY <1>7, HomeFacts, PlainBlockInv, ReadReqBlockInv, HandleReqBlockInv, blockPeerBlockInv
     DEF ShakeStep
<1> QED
  BY <1>1, <1>2, <1>3, <1>4, <1>5, <1>6, <1>7, NewShakeBlockInv DEF Next, StreamStep, DialStep

\* What the steps do to the block list, to what has passed the gater and to the
\* connections.
LEMMA StepKinds ==
  ASSUME Next
  PROVE  /\ \/ \E c \in Conns, d \in Dialers : blockPeer(c, d)
            \/ \E m \in Nodes : isBlockedExpires(m)
            \/ blocked' = blocked
         /\ \/ \E m \in Nodes : DialStep(m)
            \/ passed' = passed /\ (conn' = conn \/ ClosePeer)
            \/ passed' = passed /\ \E e \in Conns : conn' = [conn EXCEPT ![e] = "closed"]
         /\ sig' = sig
<1> DEFINE Kinds(b) == /\ blocked' = blocked \/ b
                       /\ passed' = passed /\ (conn' = conn \/ ClosePeer)
                       /\ sig' = sig
<1>1. ASSUME NEW c \in Conns, NEW d \in Dialers,
             ReadResp(c, d) \/ ReadAck(c, d) \/ HandshakeBreaks(c, d) \/ addPeer(c, d)
      PROVE  Kinds(FALSE)
  BY <1>1 DEF ReadResp, ReadAck, HandshakeBreaks, addPeer, identity, calls
<1>2. ASSUME NEW c \in Conns, NEW n \in Nodes, Disconnected(c, n)
      PROVE  Kinds(FALSE)
  BY <1>2 DEF Disconnected, identity, calls
<1>3. ASSUME NEW c \in Conns, NEW d \in Dialers, ReadReq(c, d)
      PROVE  Kinds(FALSE)
  BY <1>3 DEF ReadReq, Concluded, identity, calls
<1>4. ASSUME NEW c \in Conns, NEW d \in Dialers, HandleReq(c, d)
      PROVE  Kinds(FALSE)
  BY <1>4 DEF HandleReq, Concluded, identity, calls
<1>5. ASSUME NEW c \in Conns, NEW d \in Dialers, blockPeer(c, d)
      PROVE  Kinds(TRUE)
  BY <1>5 DEF blockPeer, identity, calls
<1>6. ASSUME NEW c \in Conns, BreakConn(c)
      PROVE  /\ sig' = sig /\ blocked' = blocked /\ passed' = passed
             /\ conn' = [conn EXCEPT ![c] = "closed"]
  BY <1>6 DEF BreakConn, identity, calls
<1>7. ASSUME NEW n \in Nodes, Stake(n) \/ isBlockedExpires(n)
      PROVE  Kinds(isBlockedExpires(n))
  BY <1>7 DEF Stake, isBlockedExpires, identity, calls
<1>8. ASSUME NEW d \in Dialers, DialKnown(d) \/ DialBegins(d) \/ StreamStep(d)
      PROVE  Kinds(FALSE)
  BY <1>8 DEF DialKnown, DialBegins, StreamStep, NewStream, NewStreamDials, NewStreamFails, identity
<1>9. ASSUME NEW n \in Nodes, DialStep(n)
      PROVE  sig' = sig /\ blocked' = blocked
  BY <1>9 DEF DialStep, InterceptSecured, DialSucceeds, DialFails, identity
<1> QED
  BY <1>1, <1>2, <1>3, <1>4, <1>5, <1>6, <1>7, <1>8, <1>9 DEF Next, ShakeStep

\* A block for ever stays, and while there is one nothing passes the blocking node's
\* gater any more.  A connection begins only when a dial that had passed it before
\* opens, and that dial has then had its connection.
BlockStays ==
  \A n \in Nodes : blocked[n] = "forever" =>
    /\ blocked'[n] = "forever"
    /\ \A m \in Nodes : n \in passed'[m] => n \in passed[m]
    /\ \/ \A c \in Conns : Open(c)' => Open(c)
       \/ \E m \in Nodes : n \in passed[m] /\ n \notin passed'[m]

\* A node is blocked for ever only when its signature is another key's.  A later
\* verdict never replaces such a block by one that expires, although blockPeer
\* overwrites the entry: a failed contract call or a missing stake is never the
\* verdict on a node that does not pass the check before it.  The block stops every
\* connection but those of dials that InterceptSecured had let pass before it.
THEOREM ForeverBlocked ==
  Spec => /\ [](\A n \in Nodes : blocked[n] = "forever" => sig[Other(n)] # Other(n))
          /\ [][BlockStays]_vars
<1>1. Init => BlockInv
  BY DEF Init, BlockInv, Cause, NoShake
<1>2. IInv /\ BlockInv /\ [Next]_vars => BlockInv'
  BY BlockInvStep
<1>3. IInv /\ BlockInv /\ [Next]_vars => [BlockStays]_vars
  <2> SUFFICES ASSUME IInv, BlockInv, Next, NEW n \in Nodes, blocked[n] = "forever"
               PROVE  /\ blocked'[n] = "forever"
                      /\ \A m \in Nodes : n \in passed'[m] => n \in passed[m]
                      /\ \/ \A c \in Conns : Open(c)' => Open(c)
                         \/ \E m \in Nodes : n \in passed[m] /\ n \notin passed'[m]
    BY DEF BlockStays
  <2>1. /\ blocked \in [Nodes -> {"no", "timed", "forever"}]
        /\ conn \in [Conns -> {"free", "open", "closed"}]
        /\ passed \in [Nodes -> SUBSET Nodes]
    BY DEF IInv, RestOK
  <2>2. BlockInv' /\ sig' = sig
    BY BlockInvStep, StepKinds
  <2>3. blocked'[n] # "timed"
    BY <2>2 DEF BlockInv
  <2>4. blocked'[n] = "forever"
    <3>1. ASSUME NEW c \in Conns, NEW d \in Dialers, blockPeer(c, d)
          PROVE  blocked'[n] = "forever"
      BY <2>1, <2>3, <3>1, HomeFacts, OtherFacts DEF blockPeer
    <3>2. ASSUME NEW m \in Nodes, isBlockedExpires(m)
          PROVE  blocked'[n] = "forever"
      BY <2>1, <3>2 DEF isBlockedExpires
    <3> QED
      BY <3>1, <3>2, StepKinds
  <2>5. ASSUME NEW m \in Nodes, DialStep(m)
        PROVE  /\ \A k \in Nodes : n \in passed'[k] => n \in passed[k]
               /\ \/ \A c \in Conns : Open(c)' => Open(c)
                  \/ n \in passed[m] /\ n \notin passed'[m]
    <3>1. CASE \E k \in Nodes : InterceptSecured(m, k)
      BY <2>1, <3>1 DEF InterceptSecured, Open
    <3>2. CASE DialSucceeds(m)
      BY <2>1, <3>2 DEF DialSucceeds, Dialled
    <3>3. CASE DialFails(m)
      BY <2>1, <3>3 DEF DialFails, Dialled, Open
    <3> QED
      BY <2>5, <3>1, <3>2, <3>3 DEF DialStep
  <2>6. CASE passed' = passed /\ \A c \in Conns : Open(c)' => Open(c)
    BY <2>4, <2>6
  <2>7. ASSUME passed' = passed,
               \/ conn' = conn \/ ClosePeer
               \/ \E e \in Conns : conn' = [conn EXCEPT ![e] = "closed"]
        PROVE  \A c \in Conns : Open(c)' => Open(c)
    BY <2>1, <2>7 DEF ClosePeer, Open
  <2> QED
    BY <2>4, <2>5, <2>6, <2>7, StepKinds
<1>4. BlockInv => \A n \in Nodes : blocked[n] = "forever" => sig[Other(n)] # Other(n)
  BY DEF BlockInv
<1> QED
  BY <1>1, <1>2, <1>3, <1>4, Invariance, PTL DEF Spec
=============================================================================
