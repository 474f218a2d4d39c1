------------------------------- MODULE Peers --------------------------------
(***************************************************************************)
(* Who is connected: the peer registry (pkg/p2p/libp2p/peers.go), the ways *)
(* into it (handleConnectReq for incoming handshakes, Connect for          *)
(* discovery's outgoing ones), the stream handlers it tracks, the          *)
(* blocklist, and the topology that is told about it.                      *)
(*                                                                         *)
(* libp2p opens and closes connections when it likes and calls             *)
(* Disconnected once for each closed one, from a goroutine of its own.     *)
(* The handshake makes sure that a peer's Ethereum address is the one of   *)
(* its ID, so overlays and underlays have the same peers and one map       *)
(* stands for both; r.streams has an entry for exactly those peers.        *)
(***************************************************************************)
EXTENDS Naturals

CONSTANTS
  PeerIDs,
  Conns,      \* libp2p connections, each used once
  Tasks,      \* goroutines of handleConnectReq, and of discovery with Connect
  Streams,    \* incoming streams of registered protocols
  None

\* What a peer can say it is: FromString gives anything else than "bootnode",
\* "provider" and "bidder" the type -1.
Types == {"provider", "bidder", "bootnode", "unknown"}

\* The topology has a map for each of these, and ignores the others.
ListedTypes == {"provider", "bidder"}

ASSUME PeersNoneAssumption == None \notin PeerIDs \cup Conns \cup Types

VARIABLES
  conn,         \* libp2p's view of a connection
  remote,       \* the peer at its other end
  connections,  \* r.connections, for all peers together
  overlays,     \* r.overlays: the type of a registered peer
  streams,      \* keys of r.streams[peer]
  cancelled,    \* streams whose handler's context was cancelled
  topology,     \* under which types a peer is listed in the topology
  blocked,      \* s.blockMap
  taskPc, taskKind, taskPeer, taskConn, taskType,
  strPc, strConn

registryVars == <<connections, overlays, streams, cancelled>>
taskVars == <<taskPc, taskKind, taskPeer, taskConn, taskType>>
streamVars == <<strPc, strConn>>
vars == <<conn, remote, registryVars, topology, blocked, taskVars, streamVars>>

TaskPc == {"idle", "dial", "handshake", "add", "notify", "list",
           "blockForever", "blockTimed", "done"}

\* The types of the state; a task past its handshake knows the peer's type.
TypeOK ==
  /\ conn \in [Conns -> {"none", "secured", "open", "closed", "gone"}]
  /\ remote \in [Conns -> PeerIDs \cup {None}]
  /\ \A c \in Conns : conn[c] # "none" => remote[c] # None
  /\ connections \in SUBSET {c \in Conns : conn[c] # "none"}
  /\ overlays \in [PeerIDs -> Types \cup {None}]
  /\ streams \in [PeerIDs -> SUBSET Streams]
  /\ cancelled \in SUBSET Streams
  /\ topology \in [PeerIDs -> SUBSET ListedTypes]
  /\ blocked \in [PeerIDs -> {"no", "timed", "forever"}]
  /\ taskPc \in [Tasks -> TaskPc]
  /\ taskKind \in [Tasks -> {"in", "out"}]
  /\ taskPeer \in [Tasks -> PeerIDs \cup {None}]
  /\ taskConn \in [Tasks -> Conns \cup {None}]
  /\ taskType \in [Tasks -> Types \cup {None}]
  /\ \A t \in Tasks :
       /\ taskPc[t] # "idle" => taskPeer[t] # None
       /\ taskPc[t] \in {"handshake", "add"} =>
            /\ taskConn[t] # None
            /\ conn[taskConn[t]] # "none"
            /\ remote[taskConn[t]] = taskPeer[t]
       /\ taskPc[t] \in {"add", "notify", "list"} => taskType[t] # None
  /\ strPc \in [Streams -> {"none", "lookup", "track", "run", "done"}]
  /\ strConn \in [Streams -> Conns \cup {None}]
  /\ \A s \in Streams :
       strPc[s] # "none" => strConn[s] # None /\ conn[strConn[s]] # "none"

Init ==
  /\ conn = [c \in Conns |-> "none"]
  /\ remote = [c \in Conns |-> None]
  /\ connections = {}
  /\ overlays = [p \in PeerIDs |-> None]
  /\ streams = [p \in PeerIDs |-> {}]
  /\ cancelled = {}
  /\ topology = [p \in PeerIDs |-> {}]
  /\ blocked = [p \in PeerIDs |-> "no"]
  /\ taskPc = [t \in Tasks |-> "idle"]
  /\ taskKind = [t \in Tasks |-> "in"]
  /\ taskPeer = [t \in Tasks |-> None]
  /\ taskConn = [t \in Tasks |-> None]
  /\ taskType = [t \in Tasks |-> None]
  /\ strPc = [s \in Streams |-> "none"]
  /\ strConn = [s \in Streams |-> None]

Registered(p) == overlays[p] # None
ConnectionsOf(p) == {c \in connections : remote[c] = p}

-----------------------------------------------------------------------------
(***************************************************************************)
(* libp2p.  The gater asks isBlocked when a connection is secured, whoever *)
(* dials; the muxer is negotiated after that, and InterceptUpgraded allows *)
(* what comes out of it without asking again.                              *)
(***************************************************************************)
InterceptSecured(c, p) ==
  /\ conn[c] = "none"
  /\ blocked[p] = "no"
  /\ conn' = [conn EXCEPT ![c] = "secured"]
  /\ remote' = [remote EXCEPT ![c] = p]
  /\ UNCHANGED <<registryVars, topology, blocked, taskVars, streamVars>>

\* InterceptUpgraded: the connection opens, blocked peer or not.
OpenConn(c) ==
  /\ conn[c] = "secured"
  /\ conn' = [conn EXCEPT ![c] = "open"]
  /\ UNCHANGED <<remote, registryVars, topology, blocked, taskVars, streamVars>>

\* The upgrade fails; nobody was told of the connection, and nobody is.
UpgradeFails(c) ==
  /\ conn[c] = "secured"
  /\ conn' = [conn EXCEPT ![c] = "gone"]
  /\ UNCHANGED <<remote, registryVars, topology, blocked, taskVars, streamVars>>

CloseConn(c) ==
  /\ conn[c] = "open"
  /\ conn' = [conn EXCEPT ![c] = "closed"]
  /\ UNCHANGED <<remote, registryVars, topology, blocked, taskVars, streamVars>>

-----------------------------------------------------------------------------
(***************************************************************************)
(* Seeded faults: variants of the definitions they are named after.        *)
(***************************************************************************)
\* The peer goes with its first connection.
LastConn_Any(c) == c \in connections

\* The topology hears of every connection that closes.
TellDisconnected_Each(c) ==
  topology' = [topology EXCEPT ![remote[c]] = @ \ {overlays[remote[c]]}]

\* The handlers of the peer go on.
CancelStreams_Forgotten(p) == cancelled' = cancelled

\* Any entry of the blocklist expires.
BlockExpires_Any(p) ==
  /\ blocked[p] # "no"
  /\ blocked' = [blocked EXCEPT ![p] = "no"]
  /\ UNCHANGED <<conn, remote, registryVars, topology, taskVars, streamVars>>

\* isBlocked deletes an entry whose time is over.
BlockExpires(p) ==
  /\ blocked[p] = "timed"
  /\ blocked' = [blocked EXCEPT ![p] = "no"]
  /\ UNCHANGED <<conn, remote, registryVars, topology, taskVars, streamVars>>

-----------------------------------------------------------------------------
(***************************************************************************)
(* peerRegistry.Disconnected, under r.mu, with Topology.Disconnected       *)
(* called inside.                                                          *)
(***************************************************************************)
LastConn(c) == ConnectionsOf(remote[c]) = {c}

TellDisconnected(c) ==
  topology' = IF LastConn(c)
                THEN [topology EXCEPT ![remote[c]] = @ \ {overlays[remote[c]]}]
                ELSE topology

CancelStreams(p) == cancelled' = cancelled \cup streams[p]

\* A connection that is not the peer's last one goes, and nothing else does; one
\* that was never added changes nothing.
Disconnected(c) ==
  /\ conn[c] = "closed"
  /\ conn' = [conn EXCEPT ![c] = "gone"]
  /\ connections' = connections \ {c}
  /\ TellDisconnected(c)
  /\ IF LastConn(c)
       THEN /\ overlays' = [overlays EXCEPT ![remote[c]] = None]
            /\ CancelStreams(remote[c])
            /\ streams' = [streams EXCEPT ![remote[c]] = {}]
       ELSE UNCHANGED <<overlays, streams, cancelled>>
  /\ UNCHANGED <<remote, blocked, taskVars, streamVars>>

-----------------------------------------------------------------------------
(***************************************************************************)
(* Tasks.  A handshake stream comes in, or discovery calls Connect.        *)
(***************************************************************************)
handleConnectReq(t, c) ==
  /\ taskPc[t] = "idle"
  /\ conn[c] = "open"
  /\ taskPc' = [taskPc EXCEPT ![t] = "handshake"]
  /\ taskKind' = [taskKind EXCEPT ![t] = "in"]
  /\ taskPeer' = [taskPeer EXCEPT ![t] = remote[c]]
  /\ taskConn' = [taskConn EXCEPT ![t] = c]
  /\ UNCHANGED <<conn, remote, registryVars, topology, blocked, taskType, streamVars>>

\* Connect: isConnected finds the peer, and Connect returns what the registry has.
ConnectKnown(t, p) ==
  /\ taskPc[t] = "idle"
  /\ Registered(p) /\ ConnectionsOf(p) # {}
  /\ taskPc' = [taskPc EXCEPT ![t] = "list"]
  /\ taskKind' = [taskKind EXCEPT ![t] = "out"]
  /\ taskPeer' = [taskPeer EXCEPT ![t] = p]
  /\ taskType' = [taskType EXCEPT ![t] = overlays[p]]
  /\ UNCHANGED <<conn, remote, registryVars, topology, blocked, taskConn, streamVars>>

\* Connect: it does not.
ConnectUnknown(t, p) ==
  /\ taskPc[t] = "idle"
  /\ ~Registered(p) \/ ConnectionsOf(p) = {}
  /\ taskPc' = [taskPc EXCEPT ![t] = "dial"]
  /\ taskKind' = [taskKind EXCEPT ![t] = "out"]
  /\ taskPeer' = [taskPeer EXCEPT ![t] = p]
  /\ UNCHANGED <<conn, remote, registryVars, topology, blocked, taskConn, taskType, streamVars>>

\* host.Connect and NewStream succeed, over a new or an existing connection.
Dialled(t, c) ==
  /\ taskPc[t] = "dial"
  /\ conn[c] = "open"
  /\ remote[c] = taskPeer[t]
  /\ taskPc' = [taskPc EXCEPT ![t] = "handshake"]
  /\ taskConn' = [taskConn EXCEPT ![t] = c]
  /\ UNCHANGED <<conn, remote, registryVars, topology, blocked, taskKind, taskPeer,
                 taskType, streamVars>>

\* One of them returns an error, and so does Connect.
DialFails(t) ==
  /\ taskPc[t] = "dial"
  /\ taskPc' = [taskPc EXCEPT ![t] = "done"]
  /\ UNCHANGED <<conn, remote, registryVars, topology, blocked, taskKind, taskPeer,
                 taskConn, taskType, streamVars>>

\* The handshake succeeds; the other side says what type of peer it is.
HandshakeOK(t) ==
  /\ taskPc[t] = "handshake"
  /\ conn[taskConn[t]] = "open"
  /\ \E ty \in Types : taskType' = [taskType EXCEPT ![t] = ty]
  /\ taskPc' = [taskPc EXCEPT ![t] = "add"]
  /\ UNCHANGED <<conn, remote, registryVars, topology, blocked, taskKind, taskPeer,
                 taskConn, streamVars>>

\* It fails: ClosePeer closes every connection with the peer.  What follows
\* depends on the error: signature or address, stake, or anything else.
HandshakeFails(t) ==
  /\ taskPc[t] = "handshake"
  /\ conn' = [c \in Conns |->
                IF remote[c] = taskPeer[t] /\ conn[c] = "open" THEN "closed" ELSE conn[c]]
  /\ \E next \in {"blockForever", "blockTimed", "done"} :
       taskPc' = [taskPc EXCEPT ![t] = next]
  /\ UNCHANGED <<remote, registryVars, topology, blocked, taskKind, taskPeer,
                 taskConn, taskType, streamVars>>

\* blockPeer, over whatever entry there is.
blockPeer(t) ==
  /\ taskPc[t] \in {"blockForever", "blockTimed"}
  /\ blocked' = [blocked EXCEPT ![taskPeer[t]] =
                   IF taskPc[t] = "blockForever" THEN "forever" ELSE "timed"]
  /\ taskPc' = [taskPc EXCEPT ![t] = "done"]
  /\ UNCHANGED <<conn, remote, registryVars, topology, taskKind, taskPeer, taskConn,
                 taskType, streamVars>>

\* addPeer, under r.mu: the connection is added in any case.  For a peer that is
\* registered already, handleConnectReq returns and Connect goes on.
addPeer(t) ==
  /\ taskPc[t] = "add"
  /\ connections' = connections \cup {taskConn[t]}
  /\ IF Registered(taskPeer[t])
       THEN UNCHANGED <<overlays, streams>>
       ELSE /\ overlays' = [overlays EXCEPT ![taskPeer[t]] = taskType[t]]
            /\ streams' = [streams EXCEPT ![taskPeer[t]] = {}]
  /\ taskPc' = [taskPc EXCEPT ![t] =
                  IF taskKind[t] = "out" THEN "list"
                  ELSE IF Registered(taskPeer[t]) THEN "done" ELSE "notify"]
  /\ UNCHANGED <<conn, remote, cancelled, topology, blocked, taskKind, taskPeer,
                 taskConn, taskType, streamVars>>

\* notifier.Connected after an incoming handshake, AddPeers after Connect: both
\* add the peer to the topology.  What Connected broadcasts afterwards is sent by
\* discovery and changes nothing here.
AddToTopology(t) ==
  /\ taskPc[t] \in {"notify", "list"}
  /\ topology' = [topology EXCEPT ![taskPeer[t]] = @ \cup ({taskType[t]} \cap ListedTypes)]
  /\ taskPc' = [taskPc EXCEPT ![t] = "done"]
  /\ UNCHANGED <<conn, remote, registryVars, blocked, taskKind, taskPeer, taskConn,
                 taskType, streamVars>>

-----------------------------------------------------------------------------
(***************************************************************************)
(* Incoming streams: AddStreamHandlers' handler.                           *)
(***************************************************************************)
OpenStream(s, c) ==
  /\ strPc[s] = "none"
  /\ conn[c] = "open"
  /\ strPc' = [strPc EXCEPT ![s] = "lookup"]
  /\ strConn' = [strConn EXCEPT ![s] = c]
  /\ UNCHANGED <<conn, remote, registryVars, topology, blocked, taskVars>>

\* getPeer; a stream of an unknown peer is reset.
getPeer(s) ==
  /\ strPc[s] = "lookup"
  /\ strPc' = [strPc EXCEPT ![s] =
                 IF Registered(remote[strConn[s]]) THEN "track" ELSE "done"]
  /\ UNCHANGED <<conn, remote, registryVars, topology, blocked, taskVars, strConn>>

\* addStream, and the handler runs; addStream does nothing for a peer that is
\* gone again.
addStream(s) ==
  /\ strPc[s] = "track"
  /\ streams' = IF Registered(remote[strConn[s]])
                  THEN [streams EXCEPT ![remote[strConn[s]]] = @ \cup {s}]
                  ELSE streams
  /\ strPc' = [strPc EXCEPT ![s] = "run"]
  /\ UNCHANGED <<conn, remote, connections, overlays, cancelled, topology, blocked,
                 taskVars, strConn>>

\* The handler returns, and the deferred removeStream cancels and deletes.
HandlerEnds(s) ==
  /\ strPc[s] = "run"
  /\ strPc' = [strPc EXCEPT ![s] = "done"]
  /\ cancelled' = IF s \in streams[remote[strConn[s]]]
                    THEN cancelled \cup {s} ELSE cancelled
  /\ streams' = [streams EXCEPT ![remote[strConn[s]]] = @ \ {s}]
  /\ UNCHANGED <<conn, remote, connections, overlays, topology, blocked, taskVars,
                 strConn>>

-----------------------------------------------------------------------------
TaskStep(t) ==
  \/ \E c \in Conns : handleConnectReq(t, c) \/ Dialled(t, c)
  \/ \E p \in PeerIDs : ConnectKnown(t, p) \/ ConnectUnknown(t, p)
  \/ DialFails(t)
  \/ HandshakeOK(t)
  \/ HandshakeFails(t)
  \/ blockPeer(t)
  \/ addPeer(t)
  \/ AddToTopology(t)

StreamStep(s) ==
  \/ \E c \in Conns : OpenStream(s, c)
  \/ getPeer(s)
  \/ addStream(s)
  \/ HandlerEnds(s)

NetworkStep ==
  \/ \E c \in Conns : OpenConn(c) \/ UpgradeFails(c) \/ CloseConn(c) \/ Disconnected(c)
  \/ \E c \in Conns, p \in PeerIDs : InterceptSecured(c, p)
  \/ \E p \in PeerIDs : BlockExpires(p)

Next ==
  \/ NetworkStep
  \/ \E t \in Tasks : TaskStep(t)
  \/ \E s \in Streams : StreamStep(s)

Spec == Init /\ [][Next]_vars

-----------------------------------------------------------------------------
\* A registered provider or bidder is listed in the topology under the type it was registered
\* with, or a task that registered it or found it is about to list it: a late
\* Disconnected of another connection or session does not take it off the list.
RegisteredIsListed ==
  \A p \in PeerIDs : overlays[p] \in ListedTypes =>
    \/ overlays[p] \in topology[p]
    \/ \E t \in Tasks : /\ taskPc[t] \in {"notify", "list"}
                        /\ taskPeer[t] = p
                        /\ taskType[t] = overlays[p]

\* A peer has an overlay exactly when it has a connection.
OverlayKnown == \A p \in PeerIDs : Registered(p) <=> ConnectionsOf(p) # {}

\* Only running handlers of registered peers are tracked, and none is cancelled.
TrackedRuns ==
  \A p \in PeerIDs : \A s \in streams[p] :
    /\ Registered(p)
    /\ strPc[s] = "run"
    /\ remote[strConn[s]] = p
    /\ s \notin cancelled

\* The registry's maps agree, however incoming and outgoing handshakes overlap:
\* Disconnected finds the overlay it dereferences when the last connection goes,
\* and nothing of an ended handler or of an earlier session stays behind.
MapsAgree == OverlayKnown /\ TrackedRuns

\* A stream leaves the registry only with its context cancelled.
CancelledOnLeave ==
  [][\A p \in PeerIDs : streams[p] \ streams'[p] \subseteq cancelled']_vars

\* The connections with a peer that the gater cannot stop any more.
PastGater(p) == {c \in Conns : remote[c] = p /\ conn[c] \in {"secured", "open"}}

\* The peer is blocked without an end, nothing is past the gater and nothing under
\* way that could block it anew for a shorter time.
Shut(p) ==
  /\ blocked[p] = "forever"
  /\ PastGater(p) = {}
  /\ \A t \in Tasks : taskPeer[t] = p => taskPc[t] \notin {"handshake", "blockTimed"}

\* A block without an end stops the connections that have not passed the gater
\* yet, and those only: one that was secured before the block still opens, and a
\* handshake under way or over such a connection may shorten the block.  Once
\* these are gone the peer is out for good: no dial of ours or of its own gets
\* through again.
BlockSticks ==
  [][\A p \in PeerIDs : /\ blocked[p] = "forever" => PastGater(p)' \subseteq PastGater(p)
                        /\ Shut(p) => Shut(p)']_vars
=============================================================================
