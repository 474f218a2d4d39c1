----------------------------- MODULE Handshake ------------------------------
(***************************************************************************)
(* How two nodes become each other's peers: the bootstrapper or discovery  *)
(* dials (libp2p.go, Connect), the two ends of a connection run the        *)
(* handshake (internal/handshake/handshake.go), each registers the other   *)
(* or closes every connection with it and blocks it (blocklister.go), and  *)
(* the gater (conngater.go) keeps blocked peers out.                       *)
(*                                                                         *)
(* A node has several goroutines that dial: the bootstrapper's, and the    *)
(* workers of discovery.  A handshake is a stream of a connection, named   *)
(* by the connection and the goroutine that started it.  Peers has one     *)
(* node with the outcome of its handshakes; this module has both nodes and *)
(* the messages, and of the registry only its connections.                 *)
(***************************************************************************)
EXTENDS Naturals, Sequences

CONSTANTS
  Nodes,      \* two of them
  First,      \* the one that bootstraps, or that discovery tells the other one about
  Workers,    \* goroutines of a node that may be inside Connect at once
  Conns,      \* slots: a slot is another connection once nothing refers to it
  MaxFaults,  \* broken connections, failed dials, streams and contract calls, and ends
              \* that need more than a minute to notice that a connection is closed
  MaxDials    \* how often discovery calls Connect, on both nodes together

\* What a signature that does not recover to the sender's key recovers to; one
\* that recovers to no key at all has the same consequence.
Stranger == "another key"

ASSUME HandshakeAssumption ==
  /\ \A n \in Nodes : \E m \in Nodes : Nodes = {n, m} /\ n # m
  /\ First \in Nodes
  /\ Workers \in Nat \ {0}
  /\ Nodes \cap {Stranger} = {}
  /\ MaxFaults \in Nat
  /\ MaxDials \in Nat

Other(n) == CHOOSE m \in Nodes : m # n

\* The goroutines that dial, and the node that one of them runs on.
Dialers == Nodes \X (1 .. Workers)
Home(d) == d[1]

\* The goroutine of startBootstrapper, if the node has one.
Bootstrapper == <<First, 1>>

VARIABLES
  peerType,    \* s.peerType of a node
  sig,         \* whose key the signature in its handshakeReq recovers to
  staked,      \* nodes that the provider registry has as staked
  boots,       \* nodes that run startBootstrapper for the other one
  dials,       \* Connect calls of discovery so far
  call,        \* where a goroutine is in Connect before its handshake: in
               \* host.Connect (dial) or in host.NewStream (stream)
  passed,      \* ends whose InterceptSecured has let a node's dial pass
  conn,        \* a connection, as libp2p sees it
  unseen,      \* the nodes that are still to be told that it closed
  registered,  \* r.connections
  blocked,     \* s.blockMap
  shake,       \* the handshake that a goroutine started on a connection
  faults

identity == <<peerType, sig, staked, boots>>
calls == <<dials, call, passed>>
vars == <<identity, calls, conn, unseen, registered, blocked, shake, faults>>

\* The dialling end runs Handshake, the other one Handle; `done' is the end of
\* either, `refused' the end after an error.
DialPc == {"none", "awaitResp", "awaitReq", "add", "blockForever", "blockTimed",
           "done", "refused"}
HandlePc == {"none", "read", "awaitAck", "add", "blockForever", "blockTimed",
             "done", "refused"}

Types == {"provider", "bidder", "bootnode"}

Req == [kind : {"req"}, type : Types, sig : Nodes \cup {Stranger}]
Resp == [kind : {"resp"}, observed : Nodes, type : Types]

NoShake == [dial |-> "none", handle |-> "none", up |-> <<>>, down |-> <<>>]

\* The types of the state; messages of a handshake come in the protocol's order.
TypeOK ==
  /\ peerType \in [Nodes -> Types]
  /\ sig \in [Nodes -> Nodes \cup {Stranger}]
  /\ staked \subseteq Nodes
  /\ boots \subseteq Nodes
  /\ dials \in 0 .. MaxDials
  /\ call \in [Dialers -> {"none", "dial", "stream"}]
  /\ passed \in [Nodes -> SUBSET Nodes]
  /\ conn \in [Conns -> {"free", "open", "closed"}]
  /\ unseen \in [Conns -> SUBSET Nodes]
  /\ registered \in [Nodes -> SUBSET Conns]
  /\ blocked \in [Nodes -> {"no", "timed", "forever"}]
  /\ faults \in 0 .. MaxFaults
  /\ DOMAIN shake = Conns \X Dialers
  /\ \A h \in Conns \X Dialers :
       /\ shake[h].dial \in DialPc
       /\ shake[h].handle \in HandlePc
       /\ shake[h].up \in {<<>>} \cup {<<m>> : m \in Req \cup Resp}
       /\ \/ shake[h].down = <<>>
          \/ Len(shake[h].down) = 1 /\ shake[h].down[1] \in Req \cup Resp
          \/ Len(shake[h].down) = 2 /\ shake[h].down[1] \in Resp /\ shake[h].down[2] \in Req

\* Nodes sign with their own key; a peer that runs other software may not.
\* Either a provider or a bidder bootstraps from a bootnode, which never dials, or
\* discovery has told one about the other, and providers about each other:
\* topology announces providers only.
Init ==
  /\ \/ /\ boots = {First}
        /\ peerType \in [Nodes -> Types]
        /\ peerType[First] # "bootnode"
        /\ peerType[Other(First)] = "bootnode"
        /\ dials = MaxDials
     \/ /\ boots = {}
        /\ peerType \in [Nodes -> {"provider", "bidder"}]
        /\ peerType[First] = "provider"
        /\ dials = 0
  /\ staked \in SUBSET {n \in Nodes : peerType[n] = "provider"}
  /\ \/ sig = [n \in Nodes |-> n]
     \/ \E n \in Nodes : sig = [m \in Nodes |-> IF m = n THEN Stranger ELSE m]
  /\ call = [d \in Dialers |-> "none"]
  /\ passed = [n \in Nodes |-> {}]
  /\ conn = [c \in Conns |-> "free"]
  /\ unseen = [c \in Conns |-> {}]
  /\ registered = [n \in Nodes |-> {}]
  /\ blocked = [n \in Nodes |-> "no"]
  /\ shake = [h \in Conns \X Dialers |-> NoShake]
  /\ faults = 0

\* An address and an ID are both derived from the key, so a node stands for all three.
Request(n) == [kind |-> "req", type |-> peerType[n], sig |-> sig[n]]
Response(n, req) == [kind |-> "resp", observed |-> n, type |-> req.type]

-----------------------------------------------------------------------------
(***************************************************************************)
(* Seeded faults: variants of the definitions they are named after.        *)
(***************************************************************************)
\* Handle registers the peer without waiting for its answer.
HandleReq_NoAck(c, d) ==
  LET h == <<c, d>>
      n == Home(d)
  IN
  /\ shake[h].handle = "read"
  /\ shake[h].up # <<>>
  /\ sig[n] = n /\ (peerType[n] = "provider" => n \in staked)
  /\ shake' = [shake EXCEPT ![h].handle = "add", ![h].up = Tail(@),
                            ![h].down = <<Response(n, Head(shake[h].up)), Request(Other(n))>>]
  /\ UNCHANGED <<identity, calls, conn, unseen, registered, blocked, faults>>

\* Handle sends its own request before it answers.
HandleReq_RequestFirst(c, d) ==
  LET h == <<c, d>>
      n == Home(d)
  IN
  /\ shake[h].handle = "read"
  /\ shake[h].up # <<>>
  /\ sig[n] = n /\ (peerType[n] = "provider" => n \in staked)
  /\ shake' = [shake EXCEPT ![h].handle = "awaitAck", ![h].up = Tail(@),
                            ![h].down = <<Request(Other(n)), Response(n, Head(shake[h].up))>>]
  /\ UNCHANGED <<identity, calls, conn, unseen, registered, blocked, faults>>

\* An end that is about to dial the peer itself leaves the registration to that.
addPeer_LeftToDial(c, d) ==
  LET h == <<c, d>>
      m == CHOOSE k \in Nodes : k # Home(d)
      Add(n) == [registered EXCEPT ![n] = @ \cup {c}]
  IN
  /\ \/ /\ shake[h].dial = "add"
        /\ registered' = Add(Home(d))
        /\ shake' = [shake EXCEPT ![h].dial = "done"]
     \/ /\ shake[h].handle = "add"
        /\ registered' = IF \E e \in Dialers : Home(e) = m /\ call[e] # "none"
                           THEN registered ELSE Add(m)
        /\ shake' = [shake EXCEPT ![h].handle = "done"]
  /\ UNCHANGED <<identity, calls, conn, unseen, blocked, faults>>

\* The blocked peer's entry is never deleted.
isBlockedExpires_Never(n) ==
  /\ blocked[n] = "expired"
  /\ blocked' = [blocked EXCEPT ![n] = "no"]
  /\ UNCHANGED <<identity, calls, conn, unseen, registered, shake, faults>>

-----------------------------------------------------------------------------
(***************************************************************************)
(* Connections.  A fault closes one; libp2p then tells each end.           *)
(***************************************************************************)
Open(c) == conn[c] = "open"

\* Both ends of a handshake have returned.
Ended(c, d) ==
  /\ shake[<<c, d>>].dial \in {"none", "done", "refused"}
  /\ shake[<<c, d>>].handle \in {"none", "done", "refused"}

Spent(c) ==
  /\ ~Open(c)
  /\ unseen[c] = {}
  /\ \A n \in Nodes : c \notin registered[n]
  /\ \A d \in Dialers : Ended(c, d)

\* Which slot a new connection gets makes no difference.
Unused == {c \in Conns : Spent(c)}
NewConn == CHOOSE c \in Unused : TRUE

BreakConn(c) ==
  /\ Open(c)
  /\ faults < MaxFaults
  /\ faults' = faults + 1
  /\ conn' = [conn EXCEPT ![c] = "closed"]
  /\ unseen' = [unseen EXCEPT ![c] = Nodes]
  /\ UNCHANGED <<identity, calls, registered, blocked, shake>>

\* peerRegistry.Disconnected: the connection goes, if it is there.
Disconnected(c, n) ==
  /\ n \in unseen[c]
  /\ unseen' = [unseen EXCEPT ![c] = @ \ {n}]
  /\ registered' = [registered EXCEPT ![n] = @ \ {c}]
  /\ UNCHANGED <<identity, calls, conn, blocked, shake, faults>>

\* ClosePeer closes every connection with the peer.
ClosePeer ==
  /\ conn' = [c \in Conns |-> IF Open(c) THEN "closed" ELSE conn[c]]
  /\ unseen' = [c \in Conns |-> IF Open(c) THEN Nodes ELSE unseen[c]]

\* isBlocked deletes an entry whose time is over (two minutes or five).
isBlockedExpires(n) ==
  /\ blocked[n] = "timed"
  /\ blocked' = [blocked EXCEPT ![n] = "no"]
  /\ UNCHANGED <<identity, calls, conn, unseen, registered, shake, faults>>

\* RegisterAndStake of the provider registry, by the node's operator.
Stake(n) ==
  /\ peerType[n] = "provider"
  /\ n \notin staked
  /\ staked' = staked \cup {n}
  /\ UNCHANGED <<peerType, sig, boots, calls, conn, unseen, registered, blocked,
                 shake, faults>>

-----------------------------------------------------------------------------
(***************************************************************************)
(* Connect, up to the handshake's stream.                                  *)
(***************************************************************************)
isConnected(n) == registered[n] # {}

Idle(d) ==
  /\ call[d] = "none"
  /\ \A c \in Conns : shake[<<c, d>>].dial \in {"none", "done", "refused"}

\* Which of a node's idle workers takes a peer from discovery makes no difference.
Worker(n) == CHOOSE d \in Dialers : Home(d) = n /\ Idle(d)

\* Connect is called by the bootstrapper's loop, once a minute and for ever, or by
\* workers of discovery, several at once when the peer is announced again.
MayDial(d) ==
  LET n == Home(d) IN
  /\ Idle(d)
  /\ ~isConnected(n)
  /\ \/ /\ n \in boots
        /\ d = Bootstrapper
        /\ UNCHANGED dials
     \/ /\ d = Worker(n)
        /\ peerType[Other(n)] = "provider"
        /\ dials < MaxDials
        /\ dials' = dials + 1

\* host.Connect finds a connection.
DialKnown(d) ==
  /\ \E c \in Conns : Open(c)
  /\ MayDial(d)
  /\ call' = [call EXCEPT ![d] = "stream"]
  /\ UNCHANGED <<identity, passed, conn, unseen, registered, blocked, shake, faults>>

\* It finds none, and InterceptPeerDial lets it dial, or wait for the dial to the
\* same peer that is under way.  A minute after the bootstrapper's last attempt
\* both ends of that one have ended, if none is slow.
DialBegins(d) ==
  /\ \A c \in Conns : ~Open(c)
  /\ blocked[Home(d)] = "no"
  /\ MayDial(d)
  /\ IF Home(d) \in boots /\ \E c \in Conns : ~Ended(c, d)
       THEN faults < MaxFaults /\ faults' = faults + 1
       ELSE UNCHANGED faults
  /\ call' = [call EXCEPT ![d] = "dial"]
  /\ UNCHANGED <<identity, passed, conn, unseen, registered, blocked, shake>>

Waiting(n) == {d \in Dialers : Home(d) = n /\ call[d] = "dial"}

\* The dial's callers go on.
Dialled(n, next) ==
  /\ call' = [d \in Dialers |-> IF d \in Waiting(n) THEN next ELSE call[d]]
  /\ passed' = [passed EXCEPT ![n] = {}]

\* The gater of end m of n's dial asks isBlocked; each end does so once.
InterceptSecured(n, m) ==
  /\ Waiting(n) # {}
  /\ m \notin passed[n]
  /\ blocked[m] = "no"
  /\ passed' = [passed EXCEPT ![n] = @ \cup {m}]
  /\ UNCHANGED <<identity, dials, call, conn, unseen, registered, blocked, shake, faults>>

\* Both ends have been asked, and InterceptUpgraded does not ask again.
DialSucceeds(n) ==
  /\ Waiting(n) # {}
  /\ passed[n] = Nodes
  /\ Unused # {}
  /\ Dialled(n, "stream")
  /\ conn' = [conn EXCEPT ![NewConn] = "open"]
  /\ shake' = [h \in Conns \X Dialers |-> IF h[1] = NewConn THEN NoShake ELSE shake[h]]
  /\ UNCHANGED <<identity, dials, unseen, registered, blocked, faults>>

\* A peer that is blocked at the end that is asked cannot be dialled, and neither
\* can an unreachable one; the callers log the error.
DialFails(n) ==
  /\ Waiting(n) # {}
  /\ \/ \E m \in Nodes \ passed[n] : blocked[m] # "no" /\ UNCHANGED faults
     \/ faults < MaxFaults /\ faults' = faults + 1
  /\ Dialled(n, "none")
  /\ UNCHANGED <<identity, dials, conn, unseen, registered, blocked, shake>>

\* NewStream: the handshake's request is written.
Handshake(c, d) ==
  [shake EXCEPT ![<<c, d>>] = [dial |-> "awaitResp", handle |-> "read",
                               up |-> <<Request(Home(d))>>, down |-> <<>>]]

NewStream(c, d) ==
  /\ call[d] = "stream"
  /\ Open(c)
  /\ call' = [call EXCEPT ![d] = "none"]
  /\ shake' = Handshake(c, d)
  /\ UNCHANGED <<identity, dials, passed, conn, unseen, registered, blocked, faults>>

\* Every connection has closed since: NewStream dials once more.
NewStreamDials(d) ==
  /\ call[d] = "stream"
  /\ \A c \in Conns : ~Open(c)
  /\ blocked[Home(d)] = "no"
  /\ call' = [call EXCEPT ![d] = "dial"]
  /\ UNCHANGED <<identity, dials, passed, conn, unseen, registered, blocked, shake, faults>>

\* It may not dial, or the stream fails: Connect returns and a connection stays.
NewStreamFails(d) ==
  /\ call[d] = "stream"
  /\ \/ blocked[Home(d)] # "no" /\ (\A c \in Conns : ~Open(c)) /\ UNCHANGED faults
     \/ faults < MaxFaults /\ faults' = faults + 1
  /\ call' = [call EXCEPT ![d] = "none"]
  /\ UNCHANGED <<identity, dials, passed, conn, unseen, registered, blocked, shake>>

-----------------------------------------------------------------------------
(***************************************************************************)
(* verifyReq and verifyResp.                                               *)
(***************************************************************************)
\* The address whose key has signed the request.
Verify(req) == req.sig

\* The stake is read and compared with the minimum; a call that fails makes the
\* answer false as well.
CheckProviderRegistered(n) ==
  (IF n \in staked THEN {"ok"} ELSE {"blockTimed"})
  \cup (IF faults < MaxFaults THEN {"rpcFails"} ELSE {})

\* What verifyReq says of a request from n: signature, address, stake, in this order.
verifyReq(n, req) ==
  CASE Verify(req) # n -> {"blockForever"}
    [] Verify(req) = n /\ req.type = "provider" -> CheckProviderRegistered(n)
    [] OTHER -> {"ok"}

\* What node n's verifyResp says of the answer to its own request.
verifyResp(n, resp) == resp.observed = n /\ resp.type = peerType[n]

\* The pc after a verdict, and the fault that a failed call is.
After(verdict, ok) ==
  CASE verdict = "ok" -> ok
    [] verdict = "rpcFails" -> "blockTimed"
    [] OTHER -> verdict

\* A verdict other than ok ends in ClosePeer; blockPeer follows as a step of its own.
Concluded(verdict) ==
  /\ faults' = IF verdict = "rpcFails" THEN faults + 1 ELSE faults
  /\ IF verdict = "ok" THEN UNCHANGED <<conn, unseen>> ELSE ClosePeer

-----------------------------------------------------------------------------
(***************************************************************************)
(* The dialling end: Handshake and the rest of Connect.                    *)
(***************************************************************************)
ReadResp(c, d) ==
  LET h == <<c, d>>
      n == Home(d)
  IN
  /\ shake[h].dial = "awaitResp"
  /\ shake[h].down # <<>>
  /\ LET good == verifyResp(n, Head(shake[h].down)) IN
       /\ shake' = [shake EXCEPT ![h].dial = IF good THEN "awaitReq" ELSE "refused",
                                 ![h].down = Tail(@)]
       /\ IF good THEN UNCHANGED <<conn, unseen>> ELSE ClosePeer
  /\ UNCHANGED <<identity, calls, registered, blocked, faults>>

\* The other end's request is read, verified and answered.  On a connection that
\* has just closed the write may still succeed, and nothing arrives.
ReadReq(c, d) ==
  LET h == <<c, d>>
      n == Home(d)
      req == Head(shake[h].down)
  IN
  /\ shake[h].dial = "awaitReq"
  /\ shake[h].down # <<>>
  /\ \E v \in verifyReq(Other(n), req) :
       /\ shake' = [shake EXCEPT ![h].dial = After(v, "add"), ![h].down = Tail(@),
                      ![h].up = IF v = "ok" /\ Open(c)
                                  THEN Append(@, Response(Other(n), req)) ELSE @]
       /\ Concluded(v)
  /\ UNCHANGED <<identity, calls, registered, blocked>>

-----------------------------------------------------------------------------
(***************************************************************************)
(* The other end: Handle and the rest of handleConnectReq.                 *)
(***************************************************************************)
\* The request is read and verified, and answered with the response and with the
\* own request.  A connection that closes between two of these steps is one that
\* closes before or after them: the reads that follow fail.
HandleReq(c, d) ==
  LET h == <<c, d>>
      n == Home(d)
      req == Head(shake[h].up)
  IN
  /\ shake[h].handle = "read"
  /\ shake[h].up # <<>>
  /\ \E v \in verifyReq(n, req) :
       /\ shake' = [shake EXCEPT ![h].handle = After(v, "awaitAck"), ![h].up = Tail(@),
                      ![h].down = IF v = "ok" /\ Open(c)
                                    THEN <<Response(n, req), Request(Other(n))>> ELSE @]
       /\ Concluded(v)
  /\ UNCHANGED <<identity, calls, registered, blocked>>

ReadAck(c, d) ==
  LET h == <<c, d>>
      n == Home(d)
  IN
  /\ shake[h].handle = "awaitAck"
  /\ shake[h].up # <<>>
  /\ LET good == verifyResp(Other(n), Head(shake[h].up)) IN
       /\ shake' = [shake EXCEPT ![h].handle = IF good THEN "add" ELSE "refused",
                                 ![h].up = Tail(@)]
       /\ IF good THEN UNCHANGED <<conn, unseen>> ELSE ClosePeer
  /\ UNCHANGED <<identity, calls, registered, blocked, faults>>

-----------------------------------------------------------------------------
(***************************************************************************)
(* Either end.                                                             *)
(***************************************************************************)
\* A read or a write fails on a closed connection.  The error is none of those
\* that block the peer; ClosePeer closes what else is open.
HandshakeBreaks(c, d) ==
  LET h == <<c, d>> IN
  /\ conn[c] = "closed"
  /\ \/ /\ shake[h].dial \in {"awaitResp", "awaitReq"}
        /\ shake' = [shake EXCEPT ![h].dial = "refused"]
     \/ /\ shake[h].handle \in {"read", "awaitAck"}
        /\ shake' = [shake EXCEPT ![h].handle = "refused"]
  /\ ClosePeer
  /\ UNCHANGED <<identity, calls, registered, blocked, faults>>

\* blockPeer, after ClosePeer.
blockPeer(c, d) ==
  LET h == <<c, d>>
      n == Home(d)
      Kind(pc) == IF pc = "blockForever" THEN "forever" ELSE "timed"
  IN
  /\ \/ /\ shake[h].dial \in {"blockForever", "blockTimed"}
        /\ blocked' = [blocked EXCEPT ![n] = Kind(shake[h].dial)]
        /\ shake' = [shake EXCEPT ![h].dial = "refused"]
     \/ /\ shake[h].handle \in {"blockForever", "blockTimed"}
        /\ blocked' = [blocked EXCEPT ![Other(n)] = Kind(shake[h].handle)]
        /\ shake' = [shake EXCEPT ![h].handle = "refused"]
  /\ UNCHANGED <<identity, calls, conn, unseen, registered, faults>>

\* addPeer, whether the connection is still open or not.
addPeer(c, d) ==
  LET h == <<c, d>>
      n == Home(d)
  IN
  /\ \/ /\ shake[h].dial = "add"
        /\ registered' = [registered EXCEPT ![n] = @ \cup {c}]
        /\ shake' = [shake EXCEPT ![h].dial = "done"]
     \/ /\ shake[h].handle = "add"
        /\ registered' = [registered EXCEPT ![Other(n)] = @ \cup {c}]
        /\ shake' = [shake EXCEPT ![h].handle = "done"]
  /\ UNCHANGED <<identity, calls, conn, unseen, blocked, faults>>

-----------------------------------------------------------------------------
ShakeStep(c, d) ==
  \/ ReadResp(c, d) \/ ReadReq(c, d)
  \/ HandleReq(c, d) \/ ReadAck(c, d)
  \/ HandshakeBreaks(c, d)
  \/ blockPeer(c, d)
  \/ addPeer(c, d)

\* A goroutine in NewStream.
StreamStep(d) ==
  \/ \E c \in Conns : NewStream(c, d)
  \/ NewStreamDials(d) \/ NewStreamFails(d)

\* A node's dial.
DialStep(n) ==
  \/ \E m \in Nodes : InterceptSecured(n, m)
  \/ DialSucceeds(n) \/ DialFails(n)

Next ==
  \/ \E d \in Dialers : DialKnown(d) \/ DialBegins(d) \/ StreamStep(d)
  \/ \E n \in Nodes : DialStep(n) \/ isBlockedExpires(n) \/ Stake(n)
  \/ \E c \in Conns, d \in Dialers : ShakeStep(c, d)
  \/ \E c \in Conns, n \in Nodes : Disconnected(c, n)
  \/ \E c \in Conns : BreakConn(c)

Spec == Init /\ [][Next]_vars

\* What goes on by itself where a node bootstraps: the bootstrapper's loop, the
\* dial and the stream it leads to, the goroutines of a connection's handshakes and
\* libp2p's notices, and the time of a block.
BootstrapStep ==
  /\ boots # {}
  /\ \/ DialBegins(Bootstrapper) \/ DialKnown(Bootstrapper) \/ StreamStep(Bootstrapper)
     \/ DialStep(First)

ConnStep(c) ==
  /\ boots # {}
  /\ \/ \E d \in Dialers : ShakeStep(c, d)
     \/ \E n \in Nodes : Disconnected(c, n)

BlockEnds(n) == boots # {} /\ isBlockedExpires(n)

\* These go on for ever; nothing makes discovery call Connect or the operator stake.
FairSpec ==
  /\ Spec
  /\ WF_vars(BootstrapStep)
  /\ \A c \in Conns : WF_vars(ConnStep(c))
  /\ \A n \in Nodes : WF_vars(BlockEnds(n))

-----------------------------------------------------------------------------
Admissible(n) == sig[n] = n /\ (peerType[n] = "provider" => n \in staked)

\* Whoever is registered anywhere passed the checks, and so did the node that
\* registered it: Handle does not return before the other end has verified it in
\* turn, and Connect not before it was answered.
MutualConsent ==
  \A n \in Nodes : registered[n] # {} => \A m \in Nodes : Admissible(m)

\* No handshake is under way and no notification to come.
Settled ==
  /\ \A c \in Conns : unseen[c] = {}
  /\ \A c \in Conns, d \in Dialers : Ended(c, d)

\* Once things settle, an open connection is registered at both ends or at
\* neither, also when both ends dialled, each on a connection of its own, and
\* whichever end refused: one end never takes the other for connected over a
\* connection that the other does not count.
EndsAgree ==
  Settled => \A c \in Conns : Open(c) =>
               \A n, m \in Nodes : c \in registered[n] <=> c \in registered[m]

\* A registration that no notification will take out: the connection closed and
\* Disconnected ran before addPeer.
Stale(n) == \E c \in registered[n] : ~Open(c) /\ n \notin unseen[c]

Linked == \E c \in Conns : Open(c) /\ \A n \in Nodes : c \in registered[n]

\* The bootstrapper gets its node connected once both ends are admissible, also
\* after refusals, blocks, broken connections and failed contract calls; the one
\* thing that stops it is a stale registration, which isConnected takes for a
\* connection.
BootstrapConnects ==
  (boots # {} /\ \A n \in Nodes : Admissible(n)) ~> (Linked \/ Stale(First))
=============================================================================
