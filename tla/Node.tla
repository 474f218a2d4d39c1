-------------------------------- MODULE Node --------------------------------
(***************************************************************************)
(* A node from its start to its end: its key (cmd/main.go), NewNode and    *)
(* Close (pkg/node/node.go), the bootnode that tells it about providers    *)
(* (Topology), and what its discovery makes of that (Discovery).           *)
(*                                                                         *)
(* libp2p.New starts the bootstrapper and accepts handshakes before        *)
(* NewNode has set the notifier and added the stream handlers, so the      *)
(* bootnode's announcement may come too early.  It may also come before    *)
(* the node, which has written the last message of the handshake, has      *)
(* registered the bootnode.                                                *)
(***************************************************************************)
EXTENDS Discovery, Sequences

CONSTANTS Self  \* the node among those that join the bootnode

ASSUME NodeAssumption == Self \in Joiners \ (Mute \cup Earlier)

VARIABLES
  keyFile,  \* the node's key on disk: a process that dies while it writes leaves a part
  stage,    \* how far the start has come, or Close
  running,  \* what was started and not closed
  closers,  \* nd.closers, those that Close has still to come to
  link      \* the node's handshake with the bootnode

nodeVars == <<keyFile, stage, running, closers, link>>
vars == <<topologyVars, discoveryVars, nodeVars>>

Parts == {"evm", "p2p", "disc", "streams", "rpc", "http"}

Starting == {"launch", "createKey", "loadKey", "keystore", "options", "evm", "p2p", "p2pUp",
             "disc", "streams", "rpc", "dial", "gateway", "http"}

\* The types of the state of all three; a node that is up has a key and has started
\* all of its parts.
TypeOK ==
  /\ TopologyTypeOK
  /\ DiscoveryTypeOK
  /\ keyFile \in {"absent", "partial", "key"}
  /\ stage \in Starting \cup {"up", "exited", "closing", "closed"}
  /\ running \subseteq Parts
  /\ closers \in Seq(Parts)
  /\ stage = "up" => running = Parts /\ keyFile = "key"
  /\ link \in {"no", "acked", "joined"}

Init ==
  /\ TopologyInit
  /\ DiscoveryInit
  /\ keyFile \in {"absent", "partial", "key"}
  /\ stage = "launch"
  /\ running = {}
  /\ closers = <<>>
  /\ link = "no"

-----------------------------------------------------------------------------
\* Seeded fault: Close does not cancel the contexts of the stream handlers.
CloseP2P_NoCancel == UNCHANGED ctxDone

-----------------------------------------------------------------------------
(***************************************************************************)
(* The command: a key, then NewNode for a provider or a bidder.            *)
(***************************************************************************)
Start(part) == running' = running \cup {part}
AddCloser(part) == closers' = Append(closers, part)

\* An error return; some of those of NewNode call Close first and some do not, and
\* what was started then ends with the process.
ReturnError == stage' = "exited" /\ UNCHANGED <<running, closers, link>>
CloseAndReturnError == stage' = "closing" /\ UNCHANGED <<running, closers, link>>

\* The next stage, nothing else.
Proceed(next) == stage' = next /\ UNCHANGED <<running, closers, link>>

\* A keystore needs a password.
verifyKeystorePasswordPresence ==
  /\ stage = "launch"
  /\ ReturnError \/ Proceed("keystore") \/ Proceed("createKey")
  /\ UNCHANGED <<topologyVars, discoveryVars, keyFile>>

\* The first account of the keystore, which ignores files it cannot read, or a new one.
NewKeystoreSigner ==
  /\ stage = "keystore"
  /\ \/ keyFile' = "key" /\ Proceed("options")
     \/ keyFile # "key" /\ ReturnError /\ UNCHANGED keyFile
  /\ UNCHANGED <<topologyVars, discoveryVars>>

\* A file that is there is not looked into.  SaveECDSA creates it before it writes.
createKeyIfNotExists ==
  /\ stage = "createKey"
  /\ \/ keyFile # "absent" /\ Proceed("loadKey") /\ UNCHANGED keyFile
     \/ keyFile = "absent" /\ keyFile' = "key" /\ Proceed("loadKey")
     \/ keyFile = "absent" /\ keyFile' \in {"absent", "partial"} /\ ReturnError
  /\ UNCHANGED <<topologyVars, discoveryVars>>

NewPrivateKeySigner ==
  /\ stage = "loadKey"
  /\ IF keyFile = "key" THEN Proceed("options") ELSE ReturnError
  /\ UNCHANGED <<topologyVars, discoveryVars, keyFile>>

\* The options of the node; a certificate and its key only together.
launchNodeWithConfig ==
  /\ stage = "options"
  /\ ReturnError \/ Proceed("evm")
  /\ UNCHANGED <<topologyVars, discoveryVars, keyFile>>

\* ethclient.Dial and evmclient.New.
NewEvmClient ==
  /\ stage = "evm"
  /\ \/ ReturnError
     \/ stage' = "p2p" /\ Start("evm") /\ AddCloser("evm") /\ UNCHANGED link
  /\ UNCHANGED <<topologyVars, discoveryVars, keyFile>>

\* libp2p.New: keys, connection and resource managers, the gater, the host, the
\* handshake service; then handshakes are accepted and the bootstrapper runs.
NewP2P ==
  /\ stage = "p2p"
  /\ \/ ReturnError
     \/ stage' = "p2pUp" /\ Start("p2p") /\ UNCHANGED <<closers, link>>
  /\ UNCHANGED <<topologyVars, discoveryVars, keyFile>>

\* Back in NewNode.
KeepP2P ==
  /\ stage = "p2pUp"
  /\ stage' = "disc"
  /\ AddCloser("p2p")
  /\ UNCHANGED <<topologyVars, discoveryVars, keyFile, running, link>>

\* Topology, discovery with its loop, announcer and notifier.
NewDiscovery ==
  /\ stage = "disc"
  /\ stage' = "streams"
  /\ Start("disc")
  /\ AddCloser("disc")
  /\ loop' = "select"
  /\ UNCHANGED <<topologyVars, handler, todo, offered, inHand, workers, topo, tried,
                 quit, ctxDone, keyFile, link>>

AddStreamHandlers ==
  /\ stage = "streams"
  /\ stage' = "rpc"
  /\ Start("streams")
  /\ UNCHANGED <<topologyVars, discoveryVars, keyFile, closers, link>>

\* The listener, TLS credentials, the validator and the services of the node's
\* type.  Close is called if the listener or the validator fails, not if the TLS
\* files do; the listener is closed in neither case, it is not yet in closers.
ServeRPC ==
  /\ stage = "rpc"
  /\ \/ ReturnError
     \/ CloseAndReturnError
     \/ stage' = "dial" /\ Start("rpc") /\ AddCloser("rpc") /\ UNCHANGED link
  /\ UNCHANGED <<topologyVars, discoveryVars, keyFile>>

\* The connection to the own server; after three strategies an error without Close.
DialSelf ==
  /\ stage = "dial"
  /\ ReturnError \/ Proceed("gateway")
  /\ UNCHANGED <<topologyVars, discoveryVars, keyFile>>

\* The gateway's handlers; an error with Close.
RegisterHandlers ==
  /\ stage = "gateway"
  /\ CloseAndReturnError \/ Proceed("http")
  /\ UNCHANGED <<topologyVars, discoveryVars, keyFile>>

\* In a goroutine: an error of the HTTP server is logged, and the node is up without it.
ServeHTTP ==
  /\ stage = "http"
  /\ stage' = "up"
  /\ Start("http")
  /\ AddCloser("http")
  /\ UNCHANGED <<topologyVars, discoveryVars, keyFile, link>>

\* launchNodeWithConfig, once its context is done.
BeginClose ==
  /\ stage = "up"
  /\ stage' = "closing"
  /\ UNCHANGED <<topologyVars, discoveryVars, keyFile, running, closers, link>>

\* Service.Close cancels the base context and closes the host.
CloseP2P == ctxDone' = TRUE

\* Close closes in the order of creation.
CloseNext ==
  /\ stage = "closing"
  /\ closers # <<>>
  /\ closers' = Tail(closers)
  /\ running' = running \ ({Head(closers)} \cup IF Head(closers) = "p2p" THEN {"streams"} ELSE {})
  /\ IF Head(closers) = "p2p" THEN CloseP2P ELSE UNCHANGED ctxDone
  /\ quit' = (quit \/ Head(closers) = "disc")
  /\ stage' = IF Tail(closers) = <<>> THEN "closed" ELSE stage
  /\ UNCHANGED <<topologyVars, handler, todo, offered, loop, inHand, workers, topo,
                 tried, keyFile, link>>

StartStep ==
  \/ verifyKeystorePasswordPresence \/ NewKeystoreSigner
  \/ createKeyIfNotExists \/ NewPrivateKeySigner \/ launchNodeWithConfig
  \/ NewEvmClient \/ NewP2P \/ KeepP2P \/ NewDiscovery \/ AddStreamHandlers
  \/ ServeRPC \/ DialSelf \/ RegisterHandlers \/ ServeHTTP

-----------------------------------------------------------------------------
(***************************************************************************)
(* The bootstrapper's handshake, as its two ends see the end of it.        *)
(***************************************************************************)
AckBootnode ==
  /\ link = "no"
  /\ "p2p" \in running /\ stage # "exited"
  /\ link' = "acked"
  /\ UNCHANGED <<topologyVars, discoveryVars, keyFile, stage, running, closers>>

RegisterBootnode ==
  /\ link = "acked" /\ stage # "exited"
  /\ link' = "joined"
  /\ UNCHANGED <<topologyVars, discoveryVars, keyFile, stage, running, closers>>

\* The bootnode's stream finds a handler and a registered peer.
Deliverable == link = "joined" /\ "streams" \in running /\ stage # "exited"

-----------------------------------------------------------------------------
(***************************************************************************)
(* The bootnode.  What it sends to the node itself arrives there.          *)
(***************************************************************************)
JoinStep(q) ==
  /\ q = Self => link # "no"
  /\ Join(q)
  /\ UNCHANGED <<discoveryVars, nodeVars>>

\* The node leaves when it closes or exits; the other joiners stay.
LeaveStep ==
  /\ ctxDone \/ stage = "exited"
  /\ Leave(Self)
  /\ UNCHANGED <<discoveryVars, nodeVars>>

ReadStep(q) ==
  /\ add(q) \/ ReadProviders(q) \/ ReadBidders(q)
  /\ UNCHANGED <<discoveryVars, nodeVars>>

\* A broadcast to p by q's Connected call; those to other joiners arrive.
SendStep(q, p, ok) ==
  /\ p # Self => ok
  /\ \/ p = q /\ TellPeer(q, ok)
     \/ TellBidder(q, p, ok)
  /\ IF p = Self /\ ok
       THEN Deliverable /\ StartHandler(q, IF p = q THEN batch[q] ELSE {q})
       ELSE UNCHANGED discoveryVars
  /\ UNCHANGED nodeVars

ConnectedSteps(q) ==
  ReadStep(q) \/ \E p \in Joiners, ok \in BOOLEAN : SendStep(q, p, ok)

\* Discovery's goroutines, while there is a process.
Live(A) == stage # "exited" /\ A /\ UNCHANGED <<topologyVars, nodeVars>>

Next ==
  \/ StartStep
  \/ BeginClose
  \/ CloseNext
  \/ AckBootnode
  \/ RegisterBootnode
  \/ LeaveStep
  \/ \E q \in Joiners : JoinStep(q) \/ ConnectedSteps(q)
  \/ Live(DiscoveryNext)

Spec == Init /\ [][Next]_vars

\* NewNode and Close go on, and so does discovery as long as one of its goroutines
\* can.  The bootnode need not.
FairSpec ==
  /\ Spec
  /\ WF_vars(StartStep \/ CloseNext \/ RegisterBootnode)
  /\ WF_vars(Live(DiscoveryNext))

-----------------------------------------------------------------------------
\* A mute peer can hold two permits: it is announced when it joins and when the
\* bidder does.
PermitsLeft == Cardinality(mute) + Cardinality(mute) < CheckWorkers

\* The bootnode has dealt with the bidder and with provider q.
Introduced(q) ==
  /\ Self \notin Providers /\ q \in Providers
  /\ task[Self] = "done" /\ task[q] = "done"
  /\ {Self, q} \cap gone = {}
  /\ q \notin lost[Self]

\* A bidder finds a provider: once the bootnode has dealt with both, the bidder
\* tries to connect to the provider, unless the announcement was lost or the node
\* ends; however many announcements compete for the permits, as long as mute
\* peers leave one.
BidderFindsProvider ==
  \A q \in Joiners \ {Self} :
    (Introduced(q) /\ PermitsLeft) ~> (q \in tried \/ ctxDone \/ quit \/ stage = "exited")

\* When Close has returned, every goroutine of discovery ends, a mute peer's too:
\* handlers that are blocked on a channel nobody reads, the loop when it waits
\* for a permit, and the workers.
ShutdownEnds ==
  (stage = "closed" /\ "disc" \notin running /\ quit)
  ~> (loop = "ended" /\ workers = {}
      /\ \A a \in Joiners : handler[a] # "run")
=============================================================================
