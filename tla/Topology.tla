------------------------------ MODULE Topology ------------------------------
(***************************************************************************)
(* How a bootnode tells its peers about each other: Topology.Connected     *)
(* (pkg/topology/topology.go), which handleConnectReq calls in a goroutine *)
(* of its own for each peer that joins, and BroadcastPeers                 *)
(* (pkg/discovery/discovery.go) with which it sends.                       *)
(***************************************************************************)
EXTENDS Naturals, FiniteSets

CONSTANTS
  Joiners,    \* the peers that join the bootnode
  Providers,  \* those that are providers; the others are bidders
  Earlier,    \* at most one that has joined before
  Mute        \* those that may accept streams and never answer on them

ASSUME TopologyAssumption ==
  /\ Providers \subseteq Joiners /\ Mute \subseteq Joiners /\ Earlier \subseteq Joiners
  /\ \A p, q \in Earlier : p = q

VARIABLES
  mute,    \* joiners that never answer
  listed,  \* t.providers and t.bidders
  task,    \* where the joiner's Connected is
  batch,   \* what it still has to send, or whom it has still to send to
  heard,   \* providers that the joiner was told about
  lost,    \* providers that it was to be told about, by a broadcast that failed
  gone     \* joiners that have disconnected

topologyVars == <<mute, listed, task, batch, heard, lost, gone>>

\* The discovery message: the underlays of peers, one for each.
PeerList == SUBSET Joiners

TaskPc == {"away", "add", "read", "tell", "readBidders", "spread", "done"}

TopologyTypeOK ==
  /\ mute \subseteq Mute
  /\ listed \subseteq Joiners
  /\ task \in [Joiners -> TaskPc]
  /\ {batch, heard, lost} \subseteq [Joiners -> PeerList]
  /\ gone \subseteq Joiners

TopologyInit ==
  /\ mute \in SUBSET Mute
  /\ listed = Earlier
  /\ task = [q \in Joiners |-> IF q \in Earlier THEN "done" ELSE "away"]
  /\ batch = [q \in Joiners |-> {}]
  /\ heard = [q \in Joiners |-> {}]
  /\ lost = [q \in Joiners |-> {}]
  /\ gone = {}

\* GetPeers.
GetPeers(type) == IF type = "provider" THEN listed \cap Providers ELSE listed \ Providers

\* The address book forgets the peers that have gone; for them there is an error.
GetPeerInfo(p) == p \notin gone

-----------------------------------------------------------------------------
\* Seeded fault: add has no case for bidders.
add_ProvidersOnly(q) ==
  /\ task[q] = "add"
  /\ listed' = listed \cup ({q} \cap Providers)
  /\ task' = [task EXCEPT ![q] = "read"]
  /\ UNCHANGED <<mute, batch, heard, lost, gone>>

-----------------------------------------------------------------------------
\* The handshake with q succeeds, and the notifier is called.
Join(q) ==
  /\ task[q] = "away"
  /\ task' = [task EXCEPT ![q] = "add"]
  /\ UNCHANGED <<mute, listed, batch, heard, lost, gone>>

\* Disconnected, whatever q's Connected is doing.
Leave(q) ==
  /\ task[q] # "away"
  /\ q \notin gone
  /\ gone' = gone \cup {q}
  /\ listed' = listed \ {q}
  /\ UNCHANGED <<mute, task, batch, heard, lost>>

add(q) ==
  /\ task[q] = "add"
  /\ listed' = listed \cup {q}
  /\ task' = [task EXCEPT ![q] = "read"]
  /\ UNCHANGED <<mute, batch, heard, lost, gone>>

AfterTelling(q) == IF q \in Providers THEN "readBidders" ELSE "done"

\* The providers but q itself, those whose peer info is known.
ReadProviders(q) ==
  /\ task[q] = "read"
  /\ LET others == {p \in GetPeers("provider") \ {q} : GetPeerInfo(p)} IN
       /\ batch' = [batch EXCEPT ![q] = others]
       /\ task' = [task EXCEPT ![q] = IF others = {} THEN AfterTelling(q) ELSE "tell"]
  /\ UNCHANGED <<mute, listed, heard, lost, gone>>

\* BroadcastPeers to p: with a background context it waits for p's answer to the
\* stream's header; an error is logged and nothing is sent again.
BroadcastPeers(p, providers, ok) ==
  /\ p \notin mute \/ p \in gone
  /\ ok => p \notin gone
  /\ heard' = IF ok THEN [heard EXCEPT ![p] = @ \cup providers] ELSE heard
  /\ lost' = IF ok THEN lost ELSE [lost EXCEPT ![p] = @ \cup providers]

TellPeer(q, ok) ==
  /\ task[q] = "tell"
  /\ BroadcastPeers(q, batch[q], ok)
  /\ batch' = [batch EXCEPT ![q] = {}]
  /\ task' = [task EXCEPT ![q] = AfterTelling(q)]
  /\ UNCHANGED <<mute, listed, gone>>

\* A provider is told to the bidders; without its own peer info Connected returns.
ReadBidders(q) ==
  /\ task[q] = "readBidders"
  /\ LET targets == IF GetPeerInfo(q) THEN GetPeers("bidder") ELSE {} IN
       /\ batch' = [batch EXCEPT ![q] = targets]
       /\ task' = [task EXCEPT ![q] = IF targets = {} THEN "done" ELSE "spread"]
  /\ UNCHANGED <<mute, listed, heard, lost, gone>>

TellBidder(q, p, ok) ==
  /\ task[q] = "spread"
  /\ p \in batch[q]
  /\ BroadcastPeers(p, {q}, ok)
  /\ batch' = [batch EXCEPT ![q] = @ \ {p}]
  /\ task' = [task EXCEPT ![q] = IF batch[q] = {p} THEN "done" ELSE @]
  /\ UNCHANGED <<mute, listed, gone>>

ConnectedStep(q) ==
  \/ add(q)
  \/ ReadProviders(q)
  \/ ReadBidders(q)
  \/ \E ok \in BOOLEAN : TellPeer(q, ok) \/ \E p \in Joiners : TellBidder(q, p, ok)

TopologyNext == \E q \in Joiners : Join(q) \/ Leave(q) \/ ConnectedStep(q)

TopologySpec == TopologyInit /\ [][TopologyNext]_topologyVars

-----------------------------------------------------------------------------
Known(q, p) == q \in heard[p] \cup lost[p]

\* Of two peers whose Connected calls overlap in any way, somebody is told: a
\* bidder about the provider, one of two providers about the other.  Each call
\* adds its peer before it reads the maps.
SomebodyTells ==
  \A q, p \in Joiners :
    (/\ q \in Providers /\ q # p
     /\ task[q] = "done" /\ task[p] = "done"
     /\ {p, q} \cap gone = {})
    => \/ Known(q, p)
       \/ p \in Providers /\ Known(p, q)
=============================================================================
