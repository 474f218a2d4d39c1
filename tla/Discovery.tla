----------------------------- MODULE Discovery ------------------------------
(***************************************************************************)
(* What a node does with an announcement (pkg/discovery/discovery.go):     *)
(* handlePeersList offers each announced peer on an unbuffered channel,    *)
(* checkAndAddPeers takes it, waits for one of checkWorkers permits and    *)
(* starts a goroutine that connects and adds the peer to the topology.     *)
(***************************************************************************)
EXTENDS Topology

CONSTANTS
  CheckWorkers,  \* checkWorkers
  Nobody

ASSUME DiscoveryAssumption ==
  /\ CheckWorkers \in Nat \ {0}
  /\ Nobody \notin Joiners \cup (Joiners \X Joiners)

VARIABLES
  handler,  \* handlePeersList of an announcement
  todo,     \* peers it has not come to
  offered,  \* the peer it offers on checkPeers
  loop,     \* checkAndAddPeers
  inHand,   \* what it has taken
  workers,  \* goroutines of the loop, by announcement and peer
  topo,     \* peers in the node's topology
  tried,    \* peers that Connect was called for
  quit,     \* d.quit is closed
  ctxDone   \* the p2p service is closed, and with it every handler's context

discoveryVars ==
  <<handler, todo, offered, loop, inHand, workers, topo, tried, quit, ctxDone>>

\* Announcements go by the joiner whose Connected call sends them.
Work == Joiners \X Joiners

DiscoveryTypeOK ==
  /\ handler \in [Joiners -> {"none", "run", "done"}]
  /\ todo \in [Joiners -> SUBSET Joiners]
  /\ offered \in [Joiners -> Joiners \cup {Nobody}]
  /\ \A a \in Joiners : handler[a] # "run" => todo[a] = {} /\ offered[a] = Nobody
  /\ loop \in {"off", "select", "acquire", "ended"}
  /\ inHand \in Work \cup {Nobody}
  /\ loop = "acquire" <=> inHand # Nobody
  /\ workers \subseteq Work
  /\ Cardinality(workers) <= CheckWorkers
  /\ topo \subseteq Joiners
  /\ tried \subseteq Joiners
  /\ quit \in BOOLEAN
  /\ ctxDone \in BOOLEAN

DiscoveryInit ==
  /\ handler = [a \in Joiners |-> "none"]
  /\ todo = [a \in Joiners |-> {}]
  /\ offered = [a \in Joiners |-> Nobody]
  /\ loop = "off"
  /\ inHand = Nobody
  /\ workers = {}
  /\ topo = {}
  /\ tried = {}
  /\ quit = FALSE
  /\ ctxDone = FALSE

-----------------------------------------------------------------------------
\* Seeded fault: TryAcquire, and a peer that finds no permit is dropped.
Acquire_Try ==
  /\ loop = "acquire"
  /\ IF Cardinality(workers) < CheckWorkers
       THEN workers' = workers \cup {inHand} /\ tried' = tried \cup {inHand[2]}
       ELSE UNCHANGED <<workers, tried>>
  /\ loop' = "select"
  /\ inHand' = Nobody
  /\ UNCHANGED <<handler, todo, offered, topo, quit, ctxDone>>

\* Seeded fault: the loop does not wait for a permit.
Acquire_Always ==
  /\ loop = "acquire"
  /\ workers' = workers \cup {inHand}
  /\ tried' = tried \cup {inHand[2]}
  /\ loop' = "select"
  /\ inHand' = Nobody
  /\ UNCHANGED <<handler, todo, offered, topo, quit, ctxDone>>

-----------------------------------------------------------------------------
(***************************************************************************)
(* handlePeersList, in any order: the announcer ranges over a map.         *)
(***************************************************************************)
StartHandler(a, peers) ==
  /\ handler[a] = "none"
  /\ handler' = [handler EXCEPT ![a] = "run"]
  /\ todo' = [todo EXCEPT ![a] = peers]
  /\ UNCHANGED <<offered, loop, inHand, workers, topo, tried, quit, ctxDone>>

\* A peer in the topology is passed over.
NextPeer(a, p) ==
  /\ handler[a] = "run"
  /\ offered[a] = Nobody
  /\ p \in todo[a]
  /\ todo' = [todo EXCEPT ![a] = @ \ {p}]
  /\ offered' = [offered EXCEPT ![a] = IF p \in topo THEN Nobody ELSE p]
  /\ UNCHANGED <<handler, loop, inHand, workers, topo, tried, quit, ctxDone>>

\* The list is done, or the context is while a peer is on offer.
EndHandler(a) ==
  /\ handler[a] = "run"
  /\ \/ offered[a] = Nobody /\ todo[a] = {}
     \/ offered[a] # Nobody /\ ctxDone
  /\ handler' = [handler EXCEPT ![a] = "done"]
  /\ todo' = [todo EXCEPT ![a] = {}]
  /\ offered' = [offered EXCEPT ![a] = Nobody]
  /\ UNCHANGED <<loop, inHand, workers, topo, tried, quit, ctxDone>>

-----------------------------------------------------------------------------
(***************************************************************************)
(* checkAndAddPeers and its goroutines.                                    *)
(***************************************************************************)
TakePeer(a) ==
  /\ loop = "select"
  /\ offered[a] # Nobody
  /\ loop' = "acquire"
  /\ inHand' = <<a, offered[a]>>
  /\ offered' = [offered EXCEPT ![a] = Nobody]
  /\ UNCHANGED <<handler, todo, workers, topo, tried, quit, ctxDone>>

Quit ==
  /\ loop = "select"
  /\ quit
  /\ loop' = "ended"
  /\ UNCHANGED <<handler, todo, offered, inHand, workers, topo, tried, quit, ctxDone>>

\* Acquire does not look at quit.
Acquire ==
  /\ loop = "acquire"
  /\ Cardinality(workers) < CheckWorkers
  /\ workers' = workers \cup {inHand}
  /\ tried' = tried \cup {inHand[2]}
  /\ loop' = "select"
  /\ inHand' = Nobody
  /\ UNCHANGED <<handler, todo, offered, topo, quit, ctxDone>>

\* Connect returns a peer and AddPeers adds it (Peers has what may happen in
\* between); the permit is released.  With a mute peer Connect waits in the
\* handshake until the connection closes.
ConnectSucceeds(w) ==
  /\ w \in workers
  /\ w[2] \notin mute
  /\ ~ctxDone
  /\ workers' = workers \ {w}
  /\ topo' = topo \cup {w[2]}
  /\ UNCHANGED <<handler, todo, offered, loop, inHand, tried, quit, ctxDone>>

ConnectFails(w) ==
  /\ w \in workers
  /\ w[2] \notin mute \/ ctxDone
  /\ workers' = workers \ {w}
  /\ UNCHANGED <<handler, todo, offered, loop, inHand, topo, tried, quit, ctxDone>>

LoopStep == Quit \/ Acquire \/ \E a \in Joiners : TakePeer(a)
HandlerStep(a) == EndHandler(a) \/ \E p \in Joiners : NextPeer(a, p)
WorkerStep(w) == ConnectSucceeds(w) \/ ConnectFails(w)

DiscoveryNext ==
  \/ LoopStep
  \/ \E a \in Joiners : HandlerStep(a)
  \/ \E w \in Work : WorkerStep(w)
=============================================================================
