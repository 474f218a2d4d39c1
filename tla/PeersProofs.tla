---------------------------- MODULE PeersProofs -----------------------------
(***************************************************************************)
(* Proofs about Peers, for any number of peers, connections, goroutines    *)
(* and streams.  What the invariants to prove lack to be inductive is that *)
(* a stream whose handler has not begun yet is not cancelled.              *)
(***************************************************************************)
EXTENDS Peers, TLAPS

\* The context of a stream is made, and may be cancelled, only with its handler.
NotBegun ==
  \A s \in Streams : strPc[s] \in {"none", "lookup", "track"} => s \notin
    cancelled

\* The step that CancelledOnLeave allows.
LeaveCancels == \A q \in PeerIDs : streams[q] \ streams'[q] \subseteq cancelled'

Inv == TypeOK /\ OverlayKnown /\ RegisteredIsListed /\ TrackedRuns /\ NotBegun

-----------------------------------------------------------------------------
\* Init, one part of the invariant after the other.
LEMMA InitInv == Init => Inv
<1>. SUFFICES ASSUME Init PROVE Inv
  OBVIOUS
<1>1. TypeOK
  BY DEF Init, TypeOK, TaskPc, Types, ListedTypes
<1>2. OverlayKnown
  BY DEF Init, OverlayKnown, Registered, ConnectionsOf
<1>3. RegisteredIsListed
  BY PeersNoneAssumption DEF Init, RegisteredIsListed, Types, ListedTypes
<1>4. TrackedRuns
  BY DEF Init, TrackedRuns
<1>5. NotBegun
  BY DEF Init, NotBegun
<1>6. QED
  BY <1>1, <1>2, <1>3, <1>4, <1>5 DEF Inv

\* Types: the connection a task or a stream works with keeps its remote peer.
LEMMA TypeStep ==
  ASSUME TypeOK, [Next]_vars
  PROVE  TypeOK'
<1>. USE PeersNoneAssumption DEF TypeOK, TaskPc, Types, ListedTypes,
  registryVars, taskVars, streamVars
<1>1. ASSUME NEW c \in Conns, NEW p \in PeerIDs, InterceptSecured(c, p) PROVE TypeOK'
  BY <1>1 DEF InterceptSecured
<1>2. ASSUME NEW c \in Conns, OpenConn(c) \/ UpgradeFails(c) \/ CloseConn(c) PROVE TypeOK'
  BY <1>2 DEF OpenConn, UpgradeFails, CloseConn
<1>3. ASSUME NEW c \in Conns, Disconnected(c) PROVE TypeOK'
  BY <1>3 DEF Disconnected, LastConn, TellDisconnected, CancelStreams,
       ConnectionsOf
<1>4. ASSUME NEW p \in PeerIDs, BlockExpires(p) PROVE TypeOK'
  BY <1>4 DEF BlockExpires
<1>5. ASSUME NEW t \in Tasks, NEW c \in Conns, handleConnectReq(t, c)
     PROVE  TypeOK'
  BY <1>5 DEF handleConnectReq
<1>6. ASSUME NEW t \in Tasks, NEW c \in Conns, Dialled(t, c) PROVE TypeOK'
  BY <1>6 DEF Dialled
<1>7. ASSUME NEW t \in Tasks, NEW p \in PeerIDs, ConnectKnown(t, p)
     PROVE  TypeOK'
  BY <1>7 DEF ConnectKnown, Registered, ConnectionsOf
<1>8. ASSUME NEW t \in Tasks, NEW p \in PeerIDs, ConnectUnknown(t, p)
     PROVE  TypeOK'
  BY <1>8 DEF ConnectUnknown, Registered, ConnectionsOf
<1>9. ASSUME NEW t \in Tasks, DialFails(t) PROVE TypeOK'
  BY <1>9 DEF DialFails
<1>10. ASSUME NEW t \in Tasks, HandshakeOK(t) PROVE TypeOK'
  BY <1>10 DEF HandshakeOK
<1>11. ASSUME NEW t \in Tasks, HandshakeFails(t) PROVE TypeOK'
  BY <1>11 DEF HandshakeFails
<1>12. ASSUME NEW t \in Tasks, blockPeer(t) PROVE TypeOK'
  BY <1>12 DEF blockPeer
<1>13. ASSUME NEW t \in Tasks, addPeer(t) PROVE TypeOK'
  BY <1>13 DEF addPeer, Registered
<1>14. ASSUME NEW t \in Tasks, AddToTopology(t) PROVE TypeOK'
  BY <1>14 DEF AddToTopology
<1>15. ASSUME NEW s \in Streams, NEW c \in Conns, OpenStream(s, c) PROVE TypeOK'
  BY <1>15 DEF OpenStream
<1>16. ASSUME NEW s \in Streams, getPeer(s) PROVE TypeOK'
  BY <1>16 DEF getPeer, Registered
<1>17. ASSUME NEW s \in Streams, addStream(s) PROVE TypeOK'
  BY <1>17 DEF addStream, Registered
<1>18. ASSUME NEW s \in Streams, HandlerEnds(s) PROVE TypeOK'
  BY <1>18 DEF HandlerEnds
<1>19. CASE UNCHANGED vars
  BY <1>19 DEF vars
<1>20. QED
  BY <1>1, <1>2, <1>3, <1>4, <1>5, <1>6, <1>7, <1>8, <1>9, <1>10, <1>11, <1>12,
       <1>13, <1>14, <1>15, <1>16, <1>17, <1>18, <1>19 DEF Next, NetworkStep,
       TaskStep, StreamStep

\* Overlays and connections are added together and go together.
LEMMA OverlayStep ==
  ASSUME TypeOK, OverlayKnown, [Next]_vars
  PROVE  OverlayKnown'
<1>. USE PeersNoneAssumption DEF TypeOK, OverlayKnown, Registered,
  ConnectionsOf, registryVars, taskVars, streamVars
<1>1. ASSUME NEW c \in Conns, NEW p \in PeerIDs, InterceptSecured(c, p)
     PROVE  OverlayKnown'
  BY <1>1 DEF InterceptSecured
<1>2. ASSUME NEW c \in Conns, Disconnected(c) PROVE OverlayKnown'
  BY <1>2 DEF Disconnected, LastConn, TellDisconnected, CancelStreams
<1>3. ASSUME NEW t \in Tasks, addPeer(t) PROVE OverlayKnown'
  BY <1>3 DEF addPeer
<1>4. CASE UNCHANGED <<remote, connections, overlays>>
  BY <1>4
<1>5. QED
  BY <1>1, <1>2, <1>3, <1>4 DEF Next, NetworkStep, TaskStep, StreamStep, vars,
       OpenConn, UpgradeFails, CloseConn, BlockExpires, handleConnectReq, Dialled, ConnectKnown,
       ConnectUnknown, DialFails, HandshakeOK, HandshakeFails, blockPeer,
       AddToTopology, OpenStream, getPeer, addStream, HandlerEnds

\* A registering task goes on to list what it registered.
LEMMA ListedStep ==
  ASSUME TypeOK, RegisteredIsListed, [Next]_vars
  PROVE  RegisteredIsListed'
<1>. USE PeersNoneAssumption DEF TypeOK, RegisteredIsListed, ListedTypes,
  registryVars, taskVars, streamVars
<1>1. ASSUME NEW c \in Conns, Disconnected(c)
     PROVE  RegisteredIsListed'
  <2>. SUFFICES ASSUME NEW q \in PeerIDs, overlays'[q] \in ListedTypes
                PROVE  \/ overlays'[q] \in topology'[q]
                       \/ \E t \in Tasks : /\ taskPc'[t] \in {"notify", "list"}
                                           /\ taskPeer'[t] = q
                                           /\ taskType'[t] = overlays'[q]
    BY DEF RegisteredIsListed
  <2>1. UNCHANGED taskVars
    BY <1>1 DEF Disconnected
  <2>2. overlays'[q] = overlays[q] /\ topology'[q] = topology[q]
    <3>1. CASE LastConn(c) /\ q = remote[c]
      BY <1>1, <3>1, PeersNoneAssumption DEF Disconnected, TypeOK, Types,
           ListedTypes
    <3>2. CASE ~(LastConn(c) /\ q = remote[c])
      BY <1>1, <3>2 DEF Disconnected, TellDisconnected, TypeOK
    <3>3. QED
      BY <3>1, <3>2
  <2>3. QED
    BY <2>1, <2>2 DEF RegisteredIsListed, taskVars
<1>2. ASSUME NEW t \in Tasks, NEW c \in Conns, handleConnectReq(t, c)
     PROVE  RegisteredIsListed'
  BY <1>2 DEF handleConnectReq
<1>3. ASSUME NEW t \in Tasks, NEW c \in Conns, Dialled(t, c)
     PROVE  RegisteredIsListed'
  BY <1>3 DEF Dialled
<1>4. ASSUME NEW t \in Tasks, NEW p \in PeerIDs, ConnectKnown(t, p)
     PROVE  RegisteredIsListed'
  BY <1>4 DEF ConnectKnown, Registered, ConnectionsOf
<1>5. ASSUME NEW t \in Tasks, NEW p \in PeerIDs, ConnectUnknown(t, p)
     PROVE  RegisteredIsListed'
  BY <1>5 DEF ConnectUnknown, Registered, ConnectionsOf
<1>6. ASSUME NEW t \in Tasks, DialFails(t) PROVE RegisteredIsListed'
  BY <1>6 DEF DialFails
<1>7. ASSUME NEW t \in Tasks, HandshakeOK(t) PROVE RegisteredIsListed'
  BY <1>7 DEF HandshakeOK
<1>8. ASSUME NEW t \in Tasks, HandshakeFails(t) PROVE RegisteredIsListed'
  BY <1>8 DEF HandshakeFails
<1>9. ASSUME NEW t \in Tasks, blockPeer(t) PROVE RegisteredIsListed'
  BY <1>9 DEF blockPeer
<1>10. ASSUME NEW t \in Tasks, addPeer(t) PROVE RegisteredIsListed'
  BY <1>10 DEF addPeer, Registered
<1>11. ASSUME NEW t \in Tasks, AddToTopology(t)
     PROVE  RegisteredIsListed'
  <2>. SUFFICES ASSUME NEW q \in PeerIDs, overlays'[q] \in ListedTypes,
                       overlays'[q] \notin topology'[q]
                PROVE  \E u \in Tasks : /\ taskPc'[u] \in {"notify", "list"}
                                        /\ taskPeer'[u] = q
                                        /\ taskType'[u] = overlays'[q]
    BY DEF RegisteredIsListed
  <2>1. overlays' = overlays /\ taskPeer' = taskPeer /\ taskType' = taskType
    BY <1>11 DEF AddToTopology, registryVars
  <2>2. topology[q] \subseteq topology'[q]
    BY <1>11 DEF AddToTopology, TypeOK
  <2>3. PICK u \in Tasks : /\ taskPc[u] \in {"notify", "list"}
                           /\ taskPeer[u] = q
                           /\ taskType[u] = overlays[q]
    BY <2>1, <2>2 DEF RegisteredIsListed
  <2>4. u # t
    BY <1>11, <2>1, <2>3 DEF AddToTopology, TypeOK
  <2>5. taskPc'[u] = taskPc[u]
    BY <1>11, <2>4 DEF AddToTopology, TypeOK
  <2>6. QED
    BY <2>1, <2>3, <2>5
<1>12. CASE UNCHANGED <<overlays, topology, taskVars>>
  BY <1>12
<1>13. QED
  BY <1>1, <1>2, <1>3, <1>4, <1>5, <1>6, <1>7, <1>8, <1>9, <1>10, <1>11, <1>12
       DEF Next, NetworkStep, TaskStep, StreamStep, vars, InterceptSecured,
       OpenConn, UpgradeFails, CloseConn, BlockExpires, OpenStream, getPeer, addStream, HandlerEnds

\* A stream is tracked from addStream until it is cancelled or its handler ends.
LEMMA TrackedStep ==
  ASSUME TypeOK, TrackedRuns, NotBegun, [Next]_vars
  PROVE  (TrackedRuns /\ NotBegun)'
<1>. USE PeersNoneAssumption DEF TypeOK, TrackedRuns, NotBegun, Registered,
  registryVars, taskVars, streamVars
<1>1. ASSUME NEW c \in Conns, NEW p \in PeerIDs, InterceptSecured(c, p)
     PROVE  (TrackedRuns /\ NotBegun)'
  BY <1>1 DEF InterceptSecured
<1>2. ASSUME NEW c \in Conns, Disconnected(c) PROVE (TrackedRuns /\ NotBegun)'
  BY <1>2 DEF Disconnected, LastConn, TellDisconnected, CancelStreams,
       ConnectionsOf
<1>3. ASSUME NEW t \in Tasks, addPeer(t) PROVE (TrackedRuns /\ NotBegun)'
  BY <1>3 DEF addPeer
<1>4. ASSUME NEW s \in Streams, NEW c \in Conns, OpenStream(s, c)
     PROVE  (TrackedRuns /\ NotBegun)'
  BY <1>4 DEF OpenStream
<1>5. ASSUME NEW s \in Streams, getPeer(s) PROVE (TrackedRuns /\ NotBegun)'
  BY <1>5 DEF getPeer
<1>6. ASSUME NEW s \in Streams, addStream(s) PROVE (TrackedRuns /\ NotBegun)'
  BY <1>6 DEF addStream
<1>7. ASSUME NEW s \in Streams, HandlerEnds(s) PROVE (TrackedRuns /\ NotBegun)'
  BY <1>7 DEF HandlerEnds
<1>8. CASE UNCHANGED <<remote, overlays, streams, cancelled, strPc, strConn>>
  BY <1>8
<1>9. QED
  BY <1>1, <1>2, <1>3, <1>4, <1>5, <1>6, <1>7, <1>8 DEF Next, NetworkStep,
       TaskStep, StreamStep, vars, OpenConn, UpgradeFails, CloseConn, BlockExpires, handleConnectReq,
       Dialled, ConnectKnown, ConnectUnknown, DialFails, HandshakeOK,
       HandshakeFails, blockPeer, AddToTopology

\* Only Disconnected and removeStream take streams out, and both cancel them.
LEMMA LeaveStep ==
  ASSUME TypeOK, TrackedRuns, [Next]_vars
  PROVE  LeaveCancels
<1>. USE DEF TypeOK, LeaveCancels, TrackedRuns, registryVars, taskVars,
  streamVars
<1>1. ASSUME NEW c \in Conns, Disconnected(c) PROVE LeaveCancels
  BY <1>1 DEF Disconnected, LastConn, TellDisconnected, CancelStreams,
       ConnectionsOf
<1>2. ASSUME NEW t \in Tasks, addPeer(t) PROVE LeaveCancels
  BY <1>2 DEF addPeer, Registered
<1>3. ASSUME NEW s \in Streams, addStream(s) PROVE LeaveCancels
  BY <1>3 DEF addStream, Registered
<1>4. ASSUME NEW s \in Streams, HandlerEnds(s) PROVE LeaveCancels
  BY <1>4 DEF HandlerEnds
<1>5. CASE UNCHANGED streams
  BY <1>5
<1>6. QED
  BY <1>1, <1>2, <1>3, <1>4, <1>5 DEF Next, NetworkStep, TaskStep, StreamStep,
       vars, InterceptSecured, OpenConn, UpgradeFails, CloseConn, BlockExpires,
       handleConnectReq, Dialled,
       ConnectKnown, ConnectUnknown, DialFails, HandshakeOK, HandshakeFails,
       blockPeer, AddToTopology, OpenStream, getPeer

\* A blocked peer's connections past the gater become fewer: only InterceptSecured
\* adds to them.
LEMMA GaterStep ==
  ASSUME TypeOK, [Next]_vars, NEW p \in PeerIDs, blocked[p] = "forever"
  PROVE  PastGater(p)' \subseteq PastGater(p)
<1>. USE DEF TypeOK, PastGater, registryVars, taskVars, streamVars
<1>1. ASSUME NEW c \in Conns, NEW q \in PeerIDs, InterceptSecured(c, q)
     PROVE  PastGater(p)' \subseteq PastGater(p)
  BY <1>1 DEF InterceptSecured
<1>2. ASSUME NEW c \in Conns, OpenConn(c) \/ UpgradeFails(c) \/ CloseConn(c) \/ Disconnected(c)
     PROVE  PastGater(p)' \subseteq PastGater(p)
  BY <1>2 DEF OpenConn, UpgradeFails, CloseConn, Disconnected
<1>3. ASSUME NEW t \in Tasks, HandshakeFails(t)
     PROVE  PastGater(p)' \subseteq PastGater(p)
  BY <1>3 DEF HandshakeFails
<1>4. CASE UNCHANGED <<conn, remote>>
  BY <1>4
<1>5. QED
  BY <1>1, <1>2, <1>3, <1>4 DEF Next, NetworkStep, TaskStep, StreamStep, vars,
     BlockExpires, handleConnectReq, Dialled, ConnectKnown, ConnectUnknown,
     DialFails, HandshakeOK, blockPeer, addPeer, AddToTopology, OpenStream,
     getPeer, addStream, HandlerEnds

\* With nothing past the gater no handshake begins, and without a handshake the
\* block is not replaced by a shorter one.
LEMMA ShutStep ==
  ASSUME TypeOK, [Next]_vars, NEW p \in PeerIDs, Shut(p)
  PROVE  Shut(p)'
<1>. USE PeersNoneAssumption DEF TypeOK, Shut, PastGater, registryVars, taskVars,
     streamVars
<1>1. ASSUME NEW c \in Conns, NEW q \in PeerIDs, InterceptSecured(c, q) PROVE Shut(p)'
  BY <1>1 DEF InterceptSecured
<1>2. ASSUME NEW c \in Conns, OpenConn(c) \/ UpgradeFails(c) \/ CloseConn(c) PROVE Shut(p)'
  BY <1>2 DEF OpenConn, UpgradeFails, CloseConn
<1>3. ASSUME NEW c \in Conns, Disconnected(c) PROVE Shut(p)'
  BY <1>3 DEF Disconnected
<1>4. ASSUME NEW q \in PeerIDs, BlockExpires(q) PROVE Shut(p)'
  BY <1>4 DEF BlockExpires
<1>5. ASSUME NEW t \in Tasks, NEW c \in Conns, handleConnectReq(t, c) PROVE Shut(p)'
  BY <1>5 DEF handleConnectReq
<1>6. ASSUME NEW t \in Tasks, NEW c \in Conns, Dialled(t, c) PROVE Shut(p)'
  BY <1>6 DEF Dialled
<1>7. ASSUME NEW t \in Tasks, NEW q \in PeerIDs, ConnectKnown(t, q) PROVE Shut(p)'
  BY <1>7 DEF ConnectKnown
<1>8. ASSUME NEW t \in Tasks, NEW q \in PeerIDs, ConnectUnknown(t, q) PROVE Shut(p)'
  BY <1>8 DEF ConnectUnknown
<1>9. ASSUME NEW t \in Tasks, HandshakeFails(t) PROVE Shut(p)'
  BY <1>9 DEF HandshakeFails
<1>10. ASSUME NEW t \in Tasks, blockPeer(t) PROVE Shut(p)'
  BY <1>10 DEF blockPeer
<1>11. ASSUME NEW t \in Tasks, DialFails(t) \/ HandshakeOK(t) \/ addPeer(t) \/ AddToTopology(t)
      PROVE  Shut(p)'
  BY <1>11 DEF DialFails, HandshakeOK, addPeer, AddToTopology
<1>12. CASE UNCHANGED <<conn, remote, blocked, taskPc, taskPeer>>
  BY <1>12
<1>13. QED
  BY <1>1, <1>2, <1>3, <1>4, <1>5, <1>6, <1>7, <1>8, <1>9, <1>10, <1>11, <1>12
     DEF Next, NetworkStep, TaskStep, StreamStep, vars, OpenStream, getPeer,
     addStream, HandlerEnds

-----------------------------------------------------------------------------
\* The parts together are inductive.
THEOREM Invariance == Spec => []Inv
<1>1. Inv /\ [Next]_vars => Inv'
  BY TypeStep, OverlayStep, ListedStep, TrackedStep DEF Inv
<1>2. QED
  BY <1>1, InitInv, PTL DEF Spec

\* Types of the registry, the tasks and the stream handlers.
THEOREM TypeCorrect == Spec => []TypeOK
<1>1. Inv => TypeOK
  BY DEF Inv
<1>2. QED
  BY <1>1, Invariance, PTL

\* Disconnected (peers.go:64-72) never dereferences a missing overlay, no peer
\* without connections stays registered, and only running handlers of registered
\* peers are tracked.
THEOREM MapsAlwaysAgree == Spec => []MapsAgree
<1>1. Inv => MapsAgree
  BY DEF Inv, MapsAgree
<1>2. QED
  BY <1>1, Invariance, PTL

\* A registered provider or bidder is listed in the topology or about to be.
THEOREM RegisteredListed == Spec => []RegisteredIsListed
<1>1. Inv => RegisteredIsListed
  BY DEF Inv
<1>2. QED
  BY <1>1, Invariance, PTL

\* A stream leaves the registry with its context cancelled.
THEOREM LeavingCancelled == Spec => CancelledOnLeave
<1>1. Inv /\ [Next]_vars =>
        [\A p \in PeerIDs : streams[p] \ streams'[p] \subseteq cancelled']_vars
  BY LeaveStep DEF Inv, LeaveCancels
<1>2. QED
  BY <1>1, Invariance, PTL DEF Spec, CancelledOnLeave

\* A permanent block (blocklister.go:16-40) lets no further connection past the
\* gater (conngater.go:62-68), and with none past it and nothing under way it keeps
\* the peer out, whatever other tasks and peers do.
THEOREM BlockedStaysOut == Spec => BlockSticks
<1>1. Inv /\ [Next]_vars =>
        [\A p \in PeerIDs : /\ blocked[p] = "forever" => PastGater(p)' \subseteq PastGater(p)
                            /\ Shut(p) => Shut(p)']_vars
  BY GaterStep, ShutStep DEF Inv
<1>2. QED
  BY <1>1, Invariance, PTL DEF Spec, BlockSticks
=============================================================================
