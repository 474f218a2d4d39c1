----------------------------- MODULE NodeProofs -----------------------------
(***************************************************************************)
(* Theorems about Node and the topology it contains, for any number of     *)
(* peers, providers, mute ones and permits.                                *)
(***************************************************************************)
EXTENDS Node, FiniteSetTheorems, TLAPS

-----------------------------------------------------------------------------
(***************************************************************************)
(* Topology.  A call of Connected adds its peer and then reads a list; of  *)
(* two calls, the one that reads last sees the other's peer.               *)
(***************************************************************************)
Added(q) == task[q] \notin {"away", "add"}

PastRead(q) == task[q] \in {"tell", "readBidders", "spread", "done"}

PastBidders(q) == task[q] \in {"spread", "done"}

\* Peers whose Connected call has added them are listed until they leave.
AddedIsListed == \A q \in Joiners : Added(q) /\ q \notin gone => q \in listed

\* p's call has q among the providers it is about to tell p.
AboutToHear(p, q) == task[p] = "tell" /\ q \in batch[p]

\* q's call has p among the bidders it is about to tell.
AboutToSpread(q, p) == task[q] = "spread" /\ p \in batch[q]

\* A bidder and a provider.
BidderTold ==
  \A p \in Joiners \ Providers, q \in Providers :
    PastRead(p) /\ PastBidders(q) /\ {p, q} \cap gone = {}
    => Known(q, p) \/ AboutToHear(p, q) \/ AboutToSpread(q, p)

\* Two providers.
ProviderTold ==
  \A p, q \in Providers :
    p # q /\ PastRead(p) /\ PastRead(q) /\ {p, q} \cap gone = {}
    => Known(q, p) \/ Known(p, q) \/ AboutToHear(p, q) \/ AboutToHear(q, p)

TellInv == TopologyTypeOK /\ AddedIsListed /\ BidderTold /\ ProviderTold

\* At most one peer has joined before, so no two have to be told.
LEMMA TellInvInit == TopologyInit => TellInv
<1> SUFFICES ASSUME TopologyInit PROVE TellInv
  OBVIOUS
<1> USE TopologyAssumption
<1>1. TopologyTypeOK
  BY DEF TopologyInit, TopologyTypeOK, TaskPc, PeerList
<1>2. AddedIsListed
  BY DEF TopologyInit, AddedIsListed, Added
<1>3. BidderTold
  BY DEF TopologyInit, BidderTold, PastRead, PastBidders
<1>4. ProviderTold
  BY DEF TopologyInit, ProviderTold, PastRead
<1> QED
  BY <1>1, <1>2, <1>3, <1>4 DEF TellInv

\* One step per action of the bootnode; the two reads are where a peer is seen.
LEMMA TellInvStep == TellInv /\ [TopologyNext]_topologyVars => TellInv'
<1> SUFFICES ASSUME TellInv, [TopologyNext]_topologyVars PROVE TellInv'
  OBVIOUS
<1> USE TopologyAssumption
<1> USE DEF TellInv
<1>1. CASE UNCHANGED topologyVars
  BY <1>1 DEF topologyVars, TopologyTypeOK, AddedIsListed, BidderTold, ProviderTold,
       Added, PastRead, PastBidders, Known, AboutToHear, AboutToSpread
<1>2. ASSUME NEW r \in Joiners, Join(r) PROVE TellInv'
  <2>1. TopologyTypeOK'
    BY <1>2 DEF Join, TopologyTypeOK, TaskPc
  <2>2. AddedIsListed'
    BY <1>2 DEF Join, TopologyTypeOK, AddedIsListed, Added
  <2>3. BidderTold'
    BY <1>2 DEF Join, TopologyTypeOK, BidderTold, PastRead, PastBidders, Known,
         AboutToHear, AboutToSpread
  <2>4. ProviderTold'
    BY <1>2 DEF Join, TopologyTypeOK, ProviderTold, PastRead, Known, AboutToHear
  <2> QED
    BY <2>1, <2>2, <2>3, <2>4
<1>3. ASSUME NEW r \in Joiners, Leave(r) PROVE TellInv'
  <2>1. TopologyTypeOK'
    BY <1>3 DEF Leave, TopologyTypeOK, TaskPc
  <2>2. AddedIsListed'
    BY <1>3 DEF Leave, TopologyTypeOK, AddedIsListed, Added
  <2>3. BidderTold'
    BY <1>3 DEF Leave, TopologyTypeOK, BidderTold, PastRead, PastBidders, Known,
         AboutToHear, AboutToSpread
  <2>4. ProviderTold'
    BY <1>3 DEF Leave, TopologyTypeOK, ProviderTold, PastRead, Known, AboutToHear
  <2> QED
    BY <2>1, <2>2, <2>3, <2>4
<1>4. ASSUME NEW r \in Joiners, add(r) PROVE TellInv'
  <2>1. TopologyTypeOK'
    BY <1>4 DEF add, TopologyTypeOK, TaskPc
  <2>2. AddedIsListed'
    BY <1>4 DEF add, TopologyTypeOK, AddedIsListed, Added
  <2>3. BidderTold'
    BY <1>4 DEF add, TopologyTypeOK, BidderTold, PastRead, PastBidders, Known,
         AboutToHear, AboutToSpread
  <2>4. ProviderTold'
    BY <1>4 DEF add, TopologyTypeOK, ProviderTold, PastRead, Known, AboutToHear
  <2> QED
    BY <2>1, <2>2, <2>3, <2>4
<1>5. ASSUME NEW r \in Joiners, ReadProviders(r) PROVE TellInv'
  <2> DEFINE others == {p \in GetPeers("provider") \ {r} : GetPeerInfo(p)}
  <2>1. TopologyTypeOK'
    BY <1>5 DEF ReadProviders, AfterTelling, GetPeers, TopologyTypeOK, TaskPc, PeerList
  <2>2. AddedIsListed'
    BY <1>5 DEF ReadProviders, AfterTelling, TopologyTypeOK, AddedIsListed, Added
  <2>3. ASSUME NEW q \in Providers, q # r, Added(q), q \notin gone
        PROVE  AboutToHear(r, q)'
    <3>1. q \in others
      BY <2>3 DEF AddedIsListed, GetPeers, GetPeerInfo
    <3> QED
      BY <1>5, <3>1 DEF ReadProviders, AboutToHear, TopologyTypeOK
  <2>4. BidderTold'
    <3> SUFFICES ASSUME NEW p \in Joiners \ Providers, NEW q \in Providers,
                        PastRead(p)', PastBidders(q)', ({p, q} \cap gone = {})'
                 PROVE  (Known(q, p) \/ AboutToHear(p, q) \/ AboutToSpread(q, p))'
      BY DEF BidderTold
    <3>0. task[r] = "read" /\ gone' = gone /\ heard' = heard /\ lost' = lost
      BY <1>5 DEF ReadProviders
    <3>1. CASE p = r
      <4>1. Added(q) /\ q # r /\ q \notin gone
        BY <1>5, <3>1, <3>0 DEF ReadProviders, PastBidders, Added, TopologyTypeOK
      <4> QED
        BY <2>3, <3>1, <4>1
    <3>2. CASE q = r
      BY <1>5, <3>2 DEF ReadProviders, AfterTelling, PastBidders, TopologyTypeOK
    <3>3. CASE p # r /\ q # r
      BY <1>5, <3>3 DEF ReadProviders, BidderTold, PastRead, PastBidders, Known,
           AboutToHear, AboutToSpread, TopologyTypeOK
    <3> QED
      BY <3>1, <3>2, <3>3
  <2>5. ProviderTold'
    <3> SUFFICES ASSUME NEW p \in Providers, NEW q \in Providers, p # q,
                        PastRead(p)', PastRead(q)', ({p, q} \cap gone = {})'
                 PROVE  (Known(q, p) \/ Known(p, q) \/ AboutToHear(p, q) \/ AboutToHear(q, p))'
      BY DEF ProviderTold
    <3>0. gone' = gone
      BY <1>5 DEF ReadProviders
    <3>1. CASE p = r
      <4>1. Added(q) /\ q # r /\ q \notin gone
        BY <1>5, <3>1, <3>0 DEF ReadProviders, PastRead, Added, TopologyTypeOK
      <4> QED
        BY <2>3, <3>1, <4>1
    <3>2. CASE q = r
      <4>1. Added(p) /\ p # r /\ p \notin gone
        BY <1>5, <3>2, <3>0 DEF ReadProviders, PastRead, Added, TopologyTypeOK
      <4> QED
        BY <2>3, <3>2, <4>1
    <3>3. CASE p # r /\ q # r
      BY <1>5, <3>3 DEF ReadProviders, ProviderTold, PastRead, Known, AboutToHear,
           TopologyTypeOK
    <3> QED
      BY <3>1, <3>2, <3>3
  <2> QED
    BY <2>1, <2>2, <2>4, <2>5
<1>6. ASSUME NEW r \in Joiners, ReadBidders(r) PROVE TellInv'
  <2>1. TopologyTypeOK'
    BY <1>6 DEF ReadBidders, GetPeers, TopologyTypeOK, TaskPc, PeerList
  <2>2. AddedIsListed'
    BY <1>6 DEF ReadBidders, TopologyTypeOK, AddedIsListed, Added
  <2>3. BidderTold'
    <3> SUFFICES ASSUME NEW p \in Joiners \ Providers, NEW q \in Providers,
                        PastRead(p)', PastBidders(q)', ({p, q} \cap gone = {})'
                 PROVE  (Known(q, p) \/ AboutToHear(p, q) \/ AboutToSpread(q, p))'
      BY DEF BidderTold
    <3>0. task[r] = "readBidders" /\ gone' = gone
      BY <1>6 DEF ReadBidders
    <3>1. CASE q = r
      <4>1. p \in listed \ Providers
        BY <1>6, <3>1, <3>0
          DEF ReadBidders, AddedIsListed, Added, PastRead, TopologyTypeOK
      <4>2. p \in GetPeers("bidder") /\ GetPeerInfo(r)
        BY <4>1, <3>1, <3>0 DEF GetPeers, GetPeerInfo
      <4> QED
        BY <1>6, <3>1, <4>2 DEF ReadBidders, AboutToSpread, TopologyTypeOK
    <3>2. CASE q # r
      BY <1>6, <3>2, <3>0 DEF ReadBidders, BidderTold, PastRead, PastBidders, Known,
           AboutToHear, AboutToSpread, TopologyTypeOK
    <3> QED
      BY <3>1, <3>2
  <2>4. ProviderTold'
    BY <1>6 DEF ReadBidders, ProviderTold, PastRead, Known, AboutToHear, TopologyTypeOK
  <2> QED
    BY <2>1, <2>2, <2>3, <2>4
<1>7. ASSUME NEW r \in Joiners, NEW ok \in BOOLEAN, TellPeer(r, ok) PROVE TellInv'
  <2>1. TopologyTypeOK'
    BY <1>7 DEF TellPeer, BroadcastPeers, AfterTelling, TopologyTypeOK, TaskPc, PeerList
  <2>2. AddedIsListed'
    BY <1>7 DEF TellPeer, AfterTelling, TopologyTypeOK, AddedIsListed, Added
  <2>3. \A q \in batch[r] : Known(q, r)'
    BY <1>7 DEF TellPeer, BroadcastPeers, Known, TopologyTypeOK
  <2>4. \A p, q \in Joiners : Known(q, p) => Known(q, p)'
    BY <1>7 DEF TellPeer, BroadcastPeers, Known, TopologyTypeOK
  <2>5. BidderTold'
    <3> SUFFICES ASSUME NEW p \in Joiners \ Providers, NEW q \in Providers,
                        PastRead(p)', PastBidders(q)', ({p, q} \cap gone = {})'
                 PROVE  (Known(q, p) \/ AboutToHear(p, q) \/ AboutToSpread(q, p))'
      BY DEF BidderTold
    <3>1. q # r
      BY <1>7 DEF TellPeer, AfterTelling, PastBidders, TopologyTypeOK
    <3>2. PastRead(p) /\ PastBidders(q) /\ {p, q} \cap gone = {}
      BY <1>7, <3>1 DEF TellPeer, PastRead, PastBidders, TopologyTypeOK
    <3>3. Known(q, p) \/ AboutToHear(p, q) \/ AboutToSpread(q, p)
      BY <3>2 DEF BidderTold
    <3> QED
      BY <1>7, <2>3, <2>4, <3>1, <3>3 DEF TellPeer, AboutToHear, AboutToSpread, TopologyTypeOK
  <2>6. ProviderTold'
    <3> SUFFICES ASSUME NEW p \in Providers, NEW q \in Providers, p # q,
                        PastRead(p)', PastRead(q)', ({p, q} \cap gone = {})'
                 PROVE  (Known(q, p) \/ Known(p, q) \/ AboutToHear(p, q) \/ AboutToHear(q, p))'
      BY DEF ProviderTold
    <3>1. PastRead(p) /\ PastRead(q) /\ {p, q} \cap gone = {}
      BY <1>7 DEF TellPeer, PastRead, TopologyTypeOK
    <3>2. Known(q, p) \/ Known(p, q) \/ AboutToHear(p, q) \/ AboutToHear(q, p)
      BY <3>1 DEF ProviderTold
    <3> QED
      BY <1>7, <2>3, <2>4, <3>2 DEF TellPeer, AboutToHear, TopologyTypeOK
  <2> QED
    BY <2>1, <2>2, <2>5, <2>6
<1>8. ASSUME NEW r \in Joiners, NEW b \in Joiners, NEW ok \in BOOLEAN, TellBidder(r, b, ok)
      PROVE TellInv'
  <2>1. TopologyTypeOK'
    BY <1>8 DEF TellBidder, BroadcastPeers, TopologyTypeOK, TaskPc, PeerList
  <2>2. AddedIsListed'
    BY <1>8 DEF TellBidder, TopologyTypeOK, AddedIsListed, Added
  <2>3. Known(r, b)'
    BY <1>8 DEF TellBidder, BroadcastPeers, Known, TopologyTypeOK
  <2>4. \A p, q \in Joiners : Known(q, p) => Known(q, p)'
    BY <1>8 DEF TellBidder, BroadcastPeers, Known, TopologyTypeOK
  <2>5. BidderTold'
    <3> SUFFICES ASSUME NEW p \in Joiners \ Providers, NEW q \in Providers,
                        PastRead(p)', PastBidders(q)', ({p, q} \cap gone = {})'
                 PROVE  (Known(q, p) \/ AboutToHear(p, q) \/ AboutToSpread(q, p))'
      BY DEF BidderTold
    <3>1. PastRead(p) /\ PastBidders(q) /\ {p, q} \cap gone = {}
      BY <1>8 DEF TellBidder, PastRead, PastBidders, TopologyTypeOK
    <3>2. CASE Known(q, p)
      BY <3>2, <2>4
    <3>3. CASE AboutToHear(p, q)
      BY <1>8, <3>3 DEF TellBidder, AboutToHear, TopologyTypeOK
    <3>4. CASE AboutToSpread(q, p)
      BY <1>8, <2>3, <3>4 DEF TellBidder, AboutToSpread, TopologyTypeOK
    <3> QED
      BY <3>1, <3>2, <3>3, <3>4 DEF BidderTold
  <2>6. ProviderTold'
    <3> SUFFICES ASSUME NEW p \in Providers, NEW q \in Providers, p # q,
                        PastRead(p)', PastRead(q)', ({p, q} \cap gone = {})'
                 PROVE  (Known(q, p) \/ Known(p, q) \/ AboutToHear(p, q) \/ AboutToHear(q, p))'
      BY DEF ProviderTold
    <3>1. PastRead(p) /\ PastRead(q) /\ {p, q} \cap gone = {}
      BY <1>8 DEF TellBidder, PastRead, TopologyTypeOK
    <3>2. Known(q, p) \/ Known(p, q) \/ AboutToHear(p, q) \/ AboutToHear(q, p)
      BY <3>1 DEF ProviderTold
    <3> QED
      BY <1>8, <2>4, <3>2 DEF TellBidder, AboutToHear, TopologyTypeOK
  <2> QED
    BY <2>1, <2>2, <2>5, <2>6
<1> QED
  BY <1>1, <1>2, <1>3, <1>4, <1>5, <1>6, <1>7, <1>8 DEF TopologyNext, ConnectedStep

\* A call that is done has nothing more to say.
LEMMA TellInvTells == TellInv => SomebodyTells
BY TopologyAssumption
  DEF TellInv, SomebodyTells, BidderTold, ProviderTold, PastRead, PastBidders, Known,
      AboutToHear, AboutToSpread

\* The bootnode by itself, with peers that join and leave in any order: of two that
\* stay somebody is told.
THEOREM TopologyTells == TopologySpec => []SomebodyTells
<1>1. TopologySpec => []TellInv
  BY TellInvInit, TellInvStep, PTL DEF TopologySpec
<1> QED
  BY <1>1, TellInvTells, PTL

-----------------------------------------------------------------------------
(***************************************************************************)
(* The composition.  A step of Node is a step of the bootnode or leaves it *)
(* alone.                                                                  *)
(***************************************************************************)
\* Only joining, leaving and the steps of Connected touch the bootnode.
LEMMA NodeStepsTopology == [Next]_vars => [TopologyNext]_topologyVars
<1> SUFFICES ASSUME [Next]_vars PROVE [TopologyNext]_topologyVars
  OBVIOUS
<1> USE NodeAssumption
<1>1. CASE UNCHANGED vars
  BY <1>1 DEF vars
<1>2. CASE StartStep
  BY <1>2 DEF StartStep, verifyKeystorePasswordPresence, NewKeystoreSigner,
       createKeyIfNotExists, NewPrivateKeySigner, launchNodeWithConfig, NewEvmClient,
       NewP2P, KeepP2P, NewDiscovery, AddStreamHandlers, ServeRPC, DialSelf,
       RegisterHandlers, ServeHTTP
<1>3. CASE BeginClose \/ CloseNext \/ AckBootnode \/ RegisterBootnode
  BY <1>3 DEF BeginClose, CloseNext, AckBootnode, RegisterBootnode
<1>4. CASE LeaveStep
  BY <1>4 DEF LeaveStep, TopologyNext
<1>5. ASSUME NEW q \in Joiners, JoinStep(q) \/ ConnectedSteps(q)
      PROVE  TopologyNext
  BY <1>5 DEF JoinStep, ConnectedSteps, ReadStep, SendStep, TopologyNext, ConnectedStep
<1>6. CASE Live(DiscoveryNext)
  BY <1>6 DEF Live
<1> QED
  BY <1>1, <1>2, <1>3, <1>4, <1>5, <1>6 DEF Next

\* Whatever the joining node does, starts, fails or closes, the bootnode behaves as
\* Topology says.
THEOREM NodeKeepsTopology == Spec => TopologySpec
<1>1. Init => TopologyInit
  BY DEF Init
<1> QED
  BY <1>1, NodeStepsTopology, PTL DEF Spec, TopologySpec

\* Of two peers of the bootnode that have both been dealt with and stay, one was told
\* about the other (SomebodyTells), however their Connected calls overlap.
THEOREM SomebodyIsTold == Spec => []SomebodyTells
BY NodeKeepsTopology, TopologyTells, PTL

-----------------------------------------------------------------------------
(***************************************************************************)
(* The types.  What a node that is up has is what the stages of its start  *)
(* have added; Cardinality says something of finite sets only.             *)
(***************************************************************************)
\* What is running at each stage of the start, and at its end.
StageRuns ==
  /\ stage \in {"launch", "createKey", "loadKey", "keystore", "options", "evm"} => running = {}
  /\ stage = "p2p" => running = {"evm"}
  /\ stage \in {"p2pUp", "disc"} => running = {"evm", "p2p"}
  /\ stage = "streams" => running = {"evm", "p2p", "disc"}
  /\ stage = "rpc" => running = {"evm", "p2p", "disc", "streams"}
  /\ stage \in {"dial", "gateway", "http"} => running = Parts \ {"http"}
  /\ stage = "up" => running = Parts

\* From the node's options on there is a key.
KeyBehind ==
  stage \notin {"launch", "createKey", "loadKey", "keystore", "exited", "closing", "closed"}
  => keyFile = "key"

\* Before discovery is created its loop has not begun.
LoopBehind ==
  stage \in Starting \ {"streams", "rpc", "dial", "gateway", "http"} => loop = "off"

NodeTypeOK ==
  /\ keyFile \in {"absent", "partial", "key"}
  /\ stage \in Starting \cup {"up", "exited", "closing", "closed"}
  /\ running \subseteq Parts
  /\ closers \in Seq(Parts)
  /\ link \in {"no", "acked", "joined"}
  /\ StageRuns
  /\ KeyBehind
  /\ LoopBehind

DiscoveryInv == DiscoveryTypeOK /\ IsFiniteSet(workers)

\* Nothing runs at first.
LEMMA NodeInit == Init => NodeTypeOK /\ DiscoveryInv
<1> SUFFICES ASSUME Init PROVE NodeTypeOK /\ DiscoveryInv
  OBVIOUS
<1>1. NodeTypeOK
  BY DEF Init, NodeTypeOK, Starting, StageRuns, KeyBehind, LoopBehind, DiscoveryInit
<1>2. IsFiniteSet(workers) /\ Cardinality(workers) = 0
  BY FS_EmptySet DEF Init, DiscoveryInit
<1>3. DiscoveryTypeOK
  <2>1. Cardinality(workers) <= CheckWorkers
    BY <1>2, DiscoveryAssumption
  <2>2. /\ handler \in [Joiners -> {"none", "run", "done"}]
        /\ todo \in [Joiners -> SUBSET Joiners]
        /\ offered \in [Joiners -> Joiners \cup {Nobody}]
        /\ \A a \in Joiners : todo[a] = {} /\ offered[a] = Nobody
    BY DEF Init, DiscoveryInit
  <2> QED
    BY <2>1, <2>2 DEF Init, DiscoveryInit, DiscoveryTypeOK
<1> QED
  BY <1>1, <1>2, <1>3 DEF DiscoveryInv

\* NewNode's and Close's steps.
LEMMA NodeTypeStep == NodeTypeOK /\ [Next]_vars => NodeTypeOK'
<1> SUFFICES ASSUME NodeTypeOK, [Next]_vars PROVE NodeTypeOK'
  OBVIOUS
<1> USE DEF NodeTypeOK, StageRuns, KeyBehind, LoopBehind, Starting
<1>1. CASE UNCHANGED vars
  BY <1>1 DEF vars, nodeVars, discoveryVars
<1>2. CASE verifyKeystorePasswordPresence
  BY <1>2 DEF verifyKeystorePasswordPresence, ReturnError, Proceed, discoveryVars
<1>3. CASE NewKeystoreSigner
  BY <1>3 DEF NewKeystoreSigner, ReturnError, Proceed, discoveryVars
<1>4. CASE createKeyIfNotExists
  BY <1>4 DEF createKeyIfNotExists, ReturnError, Proceed, discoveryVars
<1>5. CASE NewPrivateKeySigner
  BY <1>5 DEF NewPrivateKeySigner, ReturnError, Proceed, discoveryVars
<1>6. CASE launchNodeWithConfig
  BY <1>6 DEF launchNodeWithConfig, ReturnError, Proceed, discoveryVars
<1>7. CASE NewEvmClient
  <2>1. closers' \in Seq(Parts)
    BY <1>7 DEF NewEvmClient, ReturnError, AddCloser, Parts
  <2>2. CASE ReturnError
    BY <1>7, <2>1, <2>2 DEF NewEvmClient, ReturnError
  <2>3. CASE stage' = "p2p" /\ Start("evm") /\ link' = link
    BY <1>7, <2>1, <2>3 DEF NewEvmClient, Start, Parts, discoveryVars
  <2> QED
    BY <1>7, <2>2, <2>3 DEF NewEvmClient
<1>8. CASE NewP2P
  BY <1>8 DEF NewP2P, ReturnError, Start, Parts, discoveryVars
<1>9. CASE KeepP2P
  BY <1>9 DEF KeepP2P, AddCloser, Parts, discoveryVars
<1>10. CASE NewDiscovery
  BY <1>10 DEF NewDiscovery, Start, AddCloser, Parts
<1>11. CASE AddStreamHandlers
  BY <1>11 DEF AddStreamHandlers, Start, Parts
<1>12. CASE ServeRPC
  BY <1>12 DEF ServeRPC, ReturnError, CloseAndReturnError, Start, AddCloser, Parts
<1>13. CASE DialSelf
  BY <1>13 DEF DialSelf, ReturnError, Proceed
<1>14. CASE RegisterHandlers
  BY <1>14 DEF RegisterHandlers, CloseAndReturnError, Proceed
<1>15. CASE ServeHTTP
  BY <1>15 DEF ServeHTTP, Start, AddCloser, Parts
<1>16. CASE BeginClose
  BY <1>16 DEF BeginClose
<1>17. CASE CloseNext
  BY <1>17 DEF CloseNext
<1>18. CASE AckBootnode \/ RegisterBootnode
  BY <1>18 DEF AckBootnode, RegisterBootnode, discoveryVars
<1>19. CASE LeaveStep
  BY <1>19 DEF LeaveStep, nodeVars, discoveryVars
<1>20. ASSUME NEW q \in Joiners, JoinStep(q) \/ ConnectedSteps(q)
       PROVE  NodeTypeOK'
  <2>1. UNCHANGED <<nodeVars, loop>>
    BY <1>20 DEF JoinStep, ConnectedSteps, ReadStep, SendStep, StartHandler, discoveryVars
  <2> QED
    BY <2>1 DEF nodeVars
<1>21. CASE Live(DiscoveryNext)
  <2>1. loop = "off" => loop' = "off"
    BY <1>21 DEF Live, DiscoveryNext, LoopStep, Quit, Acquire, TakePeer, HandlerStep,
         EndHandler, NextPeer, WorkerStep, ConnectSucceeds, ConnectFails
  <2> QED
    BY <1>21, <2>1 DEF Live, nodeVars
<1> QED
  BY <1>1, <1>2, <1>3, <1>4, <1>5, <1>6, <1>7, <1>8, <1>9, <1>10, <1>11, <1>12, <1>13,
     <1>14, <1>15, <1>16, <1>17, <1>18, <1>19, <1>20, <1>21 DEF Next, StartStep

\* Discovery's own steps.
LEMMA DiscoveryStep == DiscoveryInv /\ DiscoveryNext => DiscoveryInv'
<1> SUFFICES ASSUME DiscoveryInv, DiscoveryNext PROVE DiscoveryInv'
  OBVIOUS
<1> USE DiscoveryAssumption
<1> USE DEF DiscoveryInv, DiscoveryTypeOK, Work
<1>1. CASE Quit
  BY <1>1 DEF Quit
<1>2. CASE Acquire
  <2>1. IsFiniteSet(workers') /\ Cardinality(workers') <= CheckWorkers
    <3>1. Cardinality(workers) \in Nat
      BY FS_CardinalityType
    <3>2. IsFiniteSet(workers \cup {inHand})
          /\ Cardinality(workers \cup {inHand}) \in {Cardinality(workers), Cardinality(workers) + 1}
      BY FS_AddElement
    <3> QED
      BY <1>2, <3>1, <3>2 DEF Acquire
  <2> QED
    BY <1>2, <2>1 DEF Acquire
<1>3. ASSUME NEW a \in Joiners, TakePeer(a) PROVE DiscoveryInv'
  BY <1>3 DEF TakePeer
<1>4. ASSUME NEW a \in Joiners, EndHandler(a) PROVE DiscoveryInv'
  BY <1>4 DEF EndHandler
<1>5. ASSUME NEW a \in Joiners, NEW p \in Joiners, NextPeer(a, p) PROVE DiscoveryInv'
  BY <1>5 DEF NextPeer
<1>6. ASSUME NEW w \in Work, WorkerStep(w) PROVE DiscoveryInv'
  <2>1. IsFiniteSet(workers') /\ Cardinality(workers') <= CheckWorkers
    <3>1. Cardinality(workers) \in Nat
      BY FS_CardinalityType
    <3>2. IsFiniteSet(workers \ {w})
          /\ Cardinality(workers \ {w}) <= Cardinality(workers)
      <4>1. workers \ {w} \subseteq workers
        OBVIOUS
      <4> QED
        BY <4>1, FS_Subset
    <3>3. Cardinality(workers \ {w}) \in Nat
      BY <3>2, FS_CardinalityType
    <3>4. workers' = workers \ {w}
      BY <1>6 DEF WorkerStep, ConnectSucceeds, ConnectFails
    <3> QED
      BY <3>1, <3>2, <3>3, <3>4
  <2> QED
    BY <1>6, <2>1 DEF WorkerStep, ConnectSucceeds, ConnectFails
<1> QED
  BY <1>1, <1>2, <1>3, <1>4, <1>5, <1>6 DEF DiscoveryNext, LoopStep, HandlerStep

\* The other steps of Node touch discovery in three places: its loop is started, a
\* delivered announcement starts a handler, and Close sets quit and ctxDone.
LEMMA DiscoveryInvStep ==
  NodeTypeOK /\ TellInv /\ DiscoveryInv /\ [Next]_vars => DiscoveryInv'
<1> SUFFICES ASSUME NodeTypeOK, TellInv, DiscoveryInv, [Next]_vars PROVE DiscoveryInv'
  OBVIOUS
<1>0. ASSUME UNCHANGED discoveryVars PROVE DiscoveryInv'
  BY <1>0 DEF discoveryVars, DiscoveryInv, DiscoveryTypeOK
<1>1. CASE UNCHANGED vars
  BY <1>0, <1>1 DEF vars
<1>2. CASE NewDiscovery
  <2>1. loop = "off"
    BY <1>2 DEF NodeTypeOK, LoopBehind, Starting, NewDiscovery
  <2> QED
    BY <1>2, <2>1 DEF NewDiscovery, DiscoveryInv, DiscoveryTypeOK
<1>3. CASE StartStep /\ ~NewDiscovery
  BY <1>0, <1>3 DEF StartStep, verifyKeystorePasswordPresence, NewKeystoreSigner,
       createKeyIfNotExists, NewPrivateKeySigner, launchNodeWithConfig, NewEvmClient,
       NewP2P, KeepP2P, AddStreamHandlers, ServeRPC, DialSelf, RegisterHandlers, ServeHTTP
<1>4. CASE BeginClose \/ AckBootnode \/ RegisterBootnode \/ LeaveStep
  BY <1>0, <1>4 DEF BeginClose, AckBootnode, RegisterBootnode, LeaveStep
<1>5. CASE CloseNext
  <2>1. ctxDone' \in BOOLEAN /\ quit' \in BOOLEAN
    BY <1>5 DEF CloseNext, CloseP2P, DiscoveryInv, DiscoveryTypeOK
  <2> QED
    BY <1>5, <2>1 DEF CloseNext, DiscoveryInv, DiscoveryTypeOK
<1>6. ASSUME NEW q \in Joiners, JoinStep(q) \/ ReadStep(q) PROVE DiscoveryInv'
  BY <1>0, <1>6 DEF JoinStep, ReadStep
<1>7. ASSUME NEW q \in Joiners, NEW p \in Joiners, NEW ok \in BOOLEAN, SendStep(q, p, ok)
      PROVE  DiscoveryInv'
  <2>1. ASSUME NEW peers \in SUBSET Joiners, StartHandler(q, peers) PROVE DiscoveryInv'
    BY <2>1 DEF StartHandler, DiscoveryInv, DiscoveryTypeOK
  <2>2. batch[q] \in SUBSET Joiners /\ {q} \in SUBSET Joiners
    BY DEF TellInv, TopologyTypeOK, PeerList
  <2> QED
    BY <1>0, <1>7, <2>1, <2>2 DEF SendStep
<1>8. CASE Live(DiscoveryNext)
  BY <1>8, DiscoveryStep DEF Live
<1> QED
  BY <1>1, <1>2, <1>3, <1>4, <1>5, <1>6, <1>7, <1>8 DEF Next, ConnectedSteps

IInv == NodeTypeOK /\ TellInv /\ DiscoveryInv

\* The inductive invariant: what is running at each stage of the start, the finite
\* set of workers, and what the Connected calls of the bootnode have still to say.
THEOREM Invariance == Spec => []IInv
<1>1. Init => IInv
  BY NodeInit, TellInvInit DEF IInv, Init
<1>2. IInv /\ [Next]_vars => IInv'
  BY NodeTypeStep, NodeStepsTopology, TellInvStep, DiscoveryInvStep DEF IInv
<1> QED
  BY <1>1, <1>2, PTL DEF Spec

\* The types, that a node which is up has its key and all its parts, and that no more
\* than checkWorkers connections are tried at a time (TypeOK).
THEOREM TypeCorrect == Spec => []TypeOK
<1>1. IInv => TypeOK
  BY DEF IInv, NodeTypeOK, StageRuns, KeyBehind, TellInv, DiscoveryInv, TypeOK
<1> QED
  BY <1>1, Invariance, PTL
=============================================================================
