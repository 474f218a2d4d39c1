# A TLA+ development of mev-commit's node

mev-commit-p2p is the node that bidders and providers run. A bidder signs a bid
for the inclusion of transactions and sends it to every provider it knows; a
provider's node checks the bid, puts it before the provider's own software over
gRPC, and, if that accepts, stores a signed commitment on the settlement chain
and sends it back to the bidder. This directory holds TLA+ modules that model
the parts of the node where goroutines, timeouts and remote calls meet, TLC
configurations that check them on small instances, and TLAPS proofs of what
matters most for instances of any size. `PROJECT.json` lists components, runs,
the map from definitions to source lines, hazards and theorems.

## The system

| part | state | operations | who it meets |
|---|---|---|---|
| `preconfirmation` (provider side, `handleBid`) | a goroutine per bid stream, its 5 s context | verify, ask the provider API, store, answer | signer, bidder registry, provider API, commitment contract |
| `preconfirmation` (bidder side, `SendBid`) | a goroutine per provider, one result channel | fan out, collect, close | topology, p2p, bidder API |
| `rpc/provider` | `bidsInProcess` (digest to callback), the channel `receiver` | `ProcessBid`, `ReceiveBids`, `SendProcessedBids` | `handleBid`, the provider's software |
| `evmclient/txmonitor` | `waitMap`, `lastConfirmedNonce`, two loops | `watchTx`, `watchLoop`, `checkLoop`, `notify`, `Close` | EVM client, JSON-RPC node |
| `evmclient` | `nonce`, `sentTxs`, `mtx`, a goroutine per transaction | `Send`, `CancelTx`, `WaitForReceipt`, `PendingTxns` | monitor, JSON-RPC node, contracts |
| `p2p/libp2p` peer registry | connections, overlays, underlays, streams | `addPeer`, `Disconnected`, `addStream`, `removeStream` | libp2p's notifications, topology |
| handshake, blocklist, gater | block map with expiry | `Connect`, `Handle`, `Handshake`, `blockPeer`, `isBlocked`, the bootstrapper | stake registry, peer registry |
| streams (`stream.go`, `AddStreamHandlers`, `NewStream`) | two framings of one libp2p stream, a context per end | open, exchange headers, read, write, report the handler's error | every protocol |
| `topology` | providers, bidders | `Connected`, `Disconnected`, `AddPeers`, `GetPeers` | p2p service, discovery |
| `discovery` | `checkPeers`, a semaphore, `quit` | `handlePeersList`, `BroadcastPeers`, `checkAndAddPeers`, `Close` | topology, p2p |
| `signer`, `keysigner` | a key | sign and verify bids, preconfirmations and handshake requests | preconfirmation, handshake |
| `contracts/*`, `rpc/*` deposits | none of their own; the chain's deposits | `RegisterStake`, `PrepayAllowance`, the queries, `StoreCommitment` | EVM client, client programs |
| `node`, `cmd` | key file, list of closers | start the parts in order, close them in order | all |
| client programs (`integrationtest/*`) | none | `CheckAndStake`, `checkOrPrepay` | the node's RPC services |

Hard behaviours. Several handlers may carry the same bid, and share one entry
of `bidsInProcess`. Callbacks run after the lock is released. Both loops of the
monitor talk through a channel that is never waited on, so updates get lost,
and they stop independently of each other. `c.mtx` is held across remote calls,
so the chain moves inside `Send`. A hash is looked up before it is watched.
Connections close between the steps that register them. Two nodes dial each other
at once, and each end of a handshake decides for itself. Peers join the bootnode
at the same time and are to learn of each other. A node is dialled before it has
set up its handlers. Messages carry no tag, and a write that was given up may
arrive. A deposit fails at any of five calls, and its program tries again; it
is spent or slashed at any time. A number is signed with 256 bits and stored
with 64, and a signature comes in two forms.

What makes each part correct:

| part | it is correct when |
|---|---|
| provider side of a bid | callbacks run safely, a commitment needs an acceptance of its own, a waiting handler can still be answered, every handler returns |
| bidder side | the bidder is told real commitments, all that came in time, and the call ends |
| transaction monitor | waiters hear the truth, once, and do hear |
| EVM client | nonces are neither skipped nor used twice, the window is kept, mined transactions are forgotten, calls end |
| peer layer | the maps agree, registered peers get listed, streams of a peer that leaves are cancelled, a block without an end stops what has not passed the gater |
| handshake | both ends have consented, both count the same connections, the bootstrapper gets through |
| streams | what is read is what was written, the ends agree on the outcome, neither waits for ever, offers to discovery's loop excepted |
| topology, discovery, node | of two peers somebody is told, a bidder tries the providers it hears of, `Close` ends what was started |
| deposits and settlement | answers are real, a second deposit has a cause, what is stored is what was signed, a bidder gets its allowance |

`PROJECT.json` lists the hazards by line, with the properties that cover them.

## Modules

| module | models | role |
|---|---|---|
| `ProviderBids` | `handleBid`, `ProcessBid`, `ReceiveBids`, `SendProcessedBids` | component |
| `BidStream` | what a bidder's node may rely on, on a bid stream | abstract specification, implemented by `ProviderBids` |
| `BidderSend` | `SendBid` of `preconfirmation.go` and of `rpc/bidder` over `BidStream` | component, composed with the contract |
| `Chain` | the JSON-RPC node and the account's transactions | environment, external |
| `TxWatch` | what `watchTx`'s users may rely on | abstract specification |
| `TxMonitor` | `txmonitor.go` | component, implements `TxWatch` |
| `EvmClient` | `evmclient.go` over `TxWatch` | component, composed with the contract |
| `Peers` | `peers.go`, `handleConnectReq`, `Connect`, the stream handlers' bracket, blocklist, who is in the topology | component |
| `Handshake` | the two ends of `handshake.go`, `Connect`, `handleConnectReq`, the bootstrapper, gater and blocklist | component, two nodes |
| `Stream` | `NewStream`, `stream.go`, the function that `AddStreamHandlers` installs | component, two ends |
| `Topology` | `topology.go` at the bootnode, `BroadcastPeers` | component |
| `Discovery` | `handlePeersList`, `checkAndAddPeers` and its goroutines | component, extends `Topology` |
| `Node` | `cmd/main.go`, `node.go`: start, failures and `Close` | composition with `Topology` and `Discovery` |
| `Signer` | `preconfsigner`, `keysigner`: what is hashed, signed, recovered | operators |
| `Registry` | deposits: client programs, RPC services, contract wrappers | component, extends `Signer` |
| `Settlement` | `handleBid`'s values: allowance, preconfirmation, `StoreCommitment` | composition with `Registry` |
| `MCProviderBids`, `MCTxMonitor`, `MCEvmClient`, `MCPeers` | symmetry sets for TLC | model checking |
| `MCSettlement` | the bids that TLC tries | model checking |
| `ProviderBidsProofs`, `BidderSendProofs`, `EvmClientProofs` (with `TxMonitor`), `PeersProofs`, `HandshakeProofs`, `StreamProofs`, `NodeProofs`, `SettlementProofs` | theorems | proofs |

### ProviderBids

A *handler* is the goroutine of one bid stream. Its `pc` follows the code:
`idle`, `register` (ProcessBid before the map), `offer` (ProcessBid's select),
`await` (handleBid's select), `store`, `write`, then `ok` or `err`.
`bidsInProcess[d]` is the handler whose callback the map holds for digest `d`;
`respC[h]` is the decision that was sent on `h`'s channel, which is closed by
the same callback. A decision is a `BidResponse` message with an identity, so
that two equal answers are two decisions. All checks of `handleBid` before
`ProcessBid` read no shared state and are one step, `AdmitBid` or `RefuseBid`;
signatures are abstracted to the set `SignedBids`. Remote calls that report an
error may have had their effect (`StoreFails`, `WriteFails`,
`SendToProviderFails`). The select's choice between a done context and a ready
channel is free, as in Go.

A status other than accepted or rejected is refused by the validator before
the callback, so `RespondEnds` stands for it.

### BidStream, BidderSend

`BidStream` is what a provider's node promises on a stream: one answer, and a
preconfirmation only after the commitment went to the chain. `ProviderBids`
implements it (`BidSpec`): `stored` is `committed`, and a handler's answer is its
preconfirmation if that left, else the error it returned, which
`AddStreamHandlers` writes.

`BidderSend` is one call of the gRPC method with a goroutine per provider
(`open`, `write`, `read`, `push`, `done`), the closing goroutine, and the loop
that forwards results. The channel is a set, because no property depends on
the order; its capacity is the number of providers. Verification of signatures is
the step's success or failure: providers run this code, so a preconfirmation
they write is for the bid they read, and whatever cannot be read or verified is
`ReadBreaks`. `verified` and `asked` are history variables.

### Chain, TxWatch, TxMonitor

`Chain` has one account. A transaction gets its nonce when the node takes it;
the pool replaces transactions of the same nonce, may evict, and blocks fill
nonce slots with our transactions or with ones that others sent. The node
answers from one state and mined slots are final: reorganisations, and several
nodes behind one endpoint, are left out.

`TxWatch` is what the monitor promises: a waiter is told at most once and
truthfully, and `lastConfirmedNonce` grows and lags. `TxMonitor` has the code's
steps. Block numbers are abstracted to `fresh`, the result of the loop's
comparison with `lastBlock`. A batch of receipts is answered from one chain
state, and each answer may be an error of its own. `ethereum.NotFound` stands
for "no receipt", as the code and its tests take it; a node that reports an
absent receipt in another way is the answer `error`, for which everything but
`SettledIsTold` still holds. After `Close` the calls, which carry `baseCtx`, fail;
what was answered before is still worked off. `NotifyPanics` is a send on a closed
channel; it ends the process.

`MonitorSpec => WatchSpec` holds with the same variable names, so the
refinement mapping is the identity on them and hides the rest.

### EvmClient

`Send` and `CancelTx` hold `c.mtx` over their calls; each is a preparing step
that chooses the nonce and a step in which `SendTransaction` succeeds
(`SubmitOK`), fails (`SubmitFails`), or fails after the node took the
transaction (`SubmitLost`). The monitor and the chain may move in between.
`goPc[t]` follows `waitForTxn`'s goroutine and `callPc[c]` a call of
`WaitForReceipt`. `fromSend` is a history variable. Fees are left out: the pool
takes a replacement, or `SubmitFails`. `PendingTxns` reads `sentTxs`.

`CancelTx` takes the nonce of any pending hash without looking at who sent it. If
that nonce is one of the account's pending transactions, this one is replaced
(`CancelPrepare`); if the account has not come to it yet, the client sends out of
turn (`CancelForeign`), and `foreign` remembers the nonce: the window and the
absence of gaps are stated for all other nonces.

`EvmClient` extends `TxWatch` and not `TxMonitor`: what is proved of the client
holds for every monitor that keeps the contract, and `EvmClientProofs` shows
that the code's monitor does.

### Peers

libp2p opens and closes connections at any time and
calls `Disconnected` for each closed one from a goroutine of its own. The gater is
asked once, when a connection is secured (`InterceptSecured`); between that and
`OpenConn` the muxer is negotiated, and `InterceptUpgraded` allows everything, so that
a connection may open after its peer was blocked. A *task* is
a goroutine of `handleConnectReq` (kind `in`) or of discovery's
`checkAndAddPeers` (kind `out`: `Connect`, then `AddPeers`); its `taskPc` marks
the points between the locks of registry, topology and blocklist. A *stream*
runs the function that `AddStreamHandlers` installs: `lookup` (getPeer), `track`
(addStream), `run`, `done` (removeStream).

In `Peers` the handshake is its outcome: it succeeds and tells the peer's type,
which may be any string, or it fails in one of the three ways that lead to a
block without end, a block with an end, or none. `verifyReq` compares the address
with the one derived from the peer ID, so `overlays[p]` stands for the peer's
entry in both maps. The topology's check in `handlePeersList` precedes `Connect`
by a queue and may be out of date by then, so it constrains nothing.

### Handshake

Two nodes and the connections between them. Each node has goroutines that call
`Connect`: the bootstrapper's, or `Workers` of discovery, which may do so at the same time
when a peer is announced again. `call[d]` is where such a goroutine is before its
handshake. Those that wait for a dial to the same peer share it, as in libp2p; each end's
gater is asked once for a dial (`InterceptSecured`, `passed`), and `DialSucceeds`
opens the connection without asking again. A connection and the goroutine that
dialled name a handshake: `shake[<<c, d>>]` has the positions of the dialling end
(`Handshake`, then the rest of `Connect`) and of the other (`Handle`, then the
rest of `handleConnectReq`), and the messages under way in both directions. A
node's key, its peer ID and its address determine each other, so the node
stands for all three; `sig[n]` is the key that the signature in `n`'s request
recovers to. `verifyReq` gives a set of verdicts, since the registry call may fail,
which counts as not staked (`registry.go:146`). Of the peer registry there is
`registered`, the connections; `Disconnected` comes from libp2p for each end by
itself (`unseen`), so that a connection may be registered after its end was told.
`ClosePeer` and `blockPeer` are two steps, as in the code. A connection slot is used
again once nothing refers to it, so that the bootstrapper may go on for ever.

Two sorts of pairs are initial: one node bootstraps from the other, or discovery
has told one or both about the other.

### Stream

One stream with an opener (`NewStream`, then `SendBid` or `BroadcastPeers`) and a
handler (the bracket of `AddStreamHandlers` around `handleBid` or
`handlePeersList`). Every read and write fails as in the code when the
caller's context is done or the stream is reset; a read also when the other end has
closed; a write that its context ended may still go out. `handleBid` may return its
error before it reads. A handler of discovery offers what it read to the loop
(`Offering`), which may be waiting for a permit. `misread` records that something was read
as what it is not: headers and messages are framed apart on one stream.
`NewStream` is refused unless the versions match: the same major, and a minor
that the handler's end has reached.

### Topology, Discovery, Node

`Topology` is the bootnode's: a call of `Connected` per joining peer, `add`, the
list of providers, the broadcast to the joiner, and, for a provider, the list of
bidders and a broadcast to each. `heard` and `lost` are what a peer was told, and
what a failed broadcast would have told it. A peer in `mute` accepts streams and does
not answer on them; with its background context the broadcast then waits.

`Discovery` is an ordinary node's: a handler per announcement, the unbuffered
channel `checkPeers` (`offered`), the loop with its permits, and the workers.

`Node` starts the parts in the order of `NewNode`, with every error return of
`cmd/main.go`, `launchNodeWithConfig` and `NewNode`, those that call `Close` and those
that do not. The key comes first: a file that is there is not looked into, so
that one half written stops the node at every later start. What the bootnode
sends to the node is delivered only if the handlers have been added and the
bootnode is registered (`Deliverable`); otherwise it is lost. `Close` goes through
`closers` in the order of creation.

### Signer, Registry, Settlement

In `Signer` a digest is the tuple that is hashed, with numbers cut to a word of
the EVM, and a signature knows its key, what it is over and its recovery byte,
with the shifts by 27 of both directions. `eipVerify` takes both forms, and indexes
a byte that a short signature does not have (`Panics`). `Width` stands for 64
bits; all numbers of the instance are scaled to it.

`Registry` has the deposits. A client's call goes through `check`, `min`, `request`
(the service and its validation rule), `send`, `wait` and `read`; each remote call may
fail, before or after its effect, and transactions are mined, reverted or
replaced. The provider's program looks at its stake and deposits if there is
none; the bidder's looks every hour; and amounts are posted to the gateway
besides. `WaitForReceipt` returns for a reverted transaction as for a successful
one, because the code wraps a nil error. The contracts take from deposits at any time
(`TakeDeposit`): `docs/mev-commit-chain.md:109-112` has them reward and slash, and the
bidder's program looks every hour because its allowance gets used up. `taken` counts
the times, and a transaction keeps the count of when it was sent, then of when it was mined.

`Settlement` adds one bid stream, used again and again, with bids of this node's API
and of others that sign what the API would refuse, leave v as 0 or 1, cut the signature
short, or change a bid after signing. A signature that is too short ends the process
(`ReadBidPanics`), and with it the call of the node's own client.
`CheckAllowance` has both reads of `CheckBidderAllowance`, of which the first, of the
minimum, gives what it always gives. `stored` has the call data of `storeCommitment`,
with 64-bit numbers, and with it whose allowance was looked up and when. The
properties look at it as the contract does: it has only the call data to hash.

## Runs

| run | instance | shows |
|---|---|---|
| `provider_bids` | 2 handlers, 2 signed bids and a forged one, 1 receiving and 2 answering streams, 2 decisions | the invariants of `ProviderBids`, the refinement of `BidStream`, every admitted bid's handler returns |
| `bidder_send` | up to 3 providers | the results channel, completeness, truth and the end of a call |
| `tx_monitor` | 2 transactions, 2 waiters, 1 nonce, batches of 1 | truth, the refinement of `TxWatch`, every waiter on a settled transaction is told |
| `tx_monitor_close` | the same with 2 nonces | **violated**: `Close` can panic |
| `evm_client` | 3 transactions, 3 nonces, window 1, 1 nonce of another sender | window, no gaps, no accidental replacement |
| `evm_client_live` | 2 transactions, 1 caller, 1 nonce, which may be another sender's | mined transactions leave the list; calls end |
| `peers` | 1 peer, 2 connections, 2 tasks, 2 streams | maps agree, registered peers get listed, streams leave cancelled, nothing new passes the gater of a peer blocked without an end |
| `membership` | 2 nodes with 2 dialling goroutines each, 2 connections at a time, 1 fault, 2 calls of discovery | consent of both ends, both ends count the same connections, the bootstrapper gets through |
| `stream` | 2 major and 2 minor versions | no misreading, verdict and outcome agree, both ends end unless discovery's loop takes nothing |
| `node` | a bidder's node, a provider that has joined before and may be mute, one that joins now, 1 permit | somebody is told, providers are tried, `Close` ends discovery |
| `settlement` | 3-bit numbers, 1 provider, 1 bidder, 4 transactions, 1 fault, 1 deposit spent or slashed, 1 commitment | real answers, a second deposit only after an error or a loss, stored as signed, the bidder gets its allowance |
| `settlement_reverted` | the same | **violated**: OK for a reverted deposit |

Bounds. Two handlers are needed for a shared digest, two bids for handlers of
different ones; two answering streams for a race on a callback; two decisions
for a stale and a fresh answer. Two transactions with one nonce give a
cancellation, batches of 1 a check of several batches. Three
transactions and a window of 1 let the window fill, slide and refuse. With one
nonce the liveness runs still have replacement, external use of the nonce and
lost updates. `MaxNonce` bounds the chain; it appears in guards of the
environment (`Submit`, `MineExternal`) and in `SendPrepare`, which needs a nonce
below it. Peers do not share state other than the locks, so one is enough; two
connections and two tasks give simultaneous handshakes in both directions, a
second session, and one connection closing under the other. Connections,
goroutines and streams are used once; when the instance has used them all it
stops. So do the one call of `BidderSend`, the one stream of `Stream`, a node that
has closed, two nodes that are connected or have blocked each other, and clients
whose transactions are used up: these runs do not check for deadlock. The
others do. Three providers of which any non-empty subset is asked
give a call in which one answer is told, one is under way and one never comes.

Two nodes are all that a handshake has; two connections let both dial at once or
one redial while the other end has yet to notice. Two dialling goroutines and two
calls let both run on one node or one on each. `MaxFaults` bounds the
environment's faults. One is enough for a connection that breaks at any point and
for a registry call that fails at any point. `MaxDials` bounds discovery's calls only, the bootstrapper is
unbounded. With the minor versions 0 and 1 and the majors 1 and 2 every outcome of
the comparison happens at either end. One permit makes discovery's handlers compete
for it; since a mute peer may take two permits (it is announced twice),
`BidderFindsProvider` is about the behaviours in which no peer is mute, and
`ShutdownEnds` about all. With `Width` 3 the amounts 7 and 9 are the largest that
fits and one that does not, 8 is the boundary that is posted to the gateway, and a
negative time is one of the stamps (`MCFields`). One parity is enough: the other one only
renames v. `MaxTx` lets each program deposit, fail and
deposit again, and one of them after an amount was posted. `MaxTaken` of 1 lets one
deposit be lost, wholly (`Leftovers`), at any point of everything else; what is left of
a deposit matters only by being below the minimum. `MaxForeign` of 1 gives one nonce out
of turn, below, at or above the window.

Symmetry is used where the sets only occur in quantifiers and no liveness
property is checked.

Each property has a mutant: a variant of a definition, kept in the section
"Seeded faults" of the module, under which TLC finds the property violated.

### What the violated runs show

* `tx_monitor_close`. `watchLoop` closes all channels when the context ends but
  leaves them in `waitMap`; `checkLoop` may have the answers of a batch by then, and its
  `notify` sends on a closed channel (`txmonitor.go:96` and `206`). The trace has the
  batch answered, then `Close`, then `watchLoop`'s end, then `notify`.
* `settlement_reverted`. When the receipt says failed, `RegisterProvider` returns
  the nil `err` of the call before (`registry.go:82`), and `PrepayAllowance` likewise
  (`bidder_registry.go:82`); the service then answers OK with the old deposit.

### Behaviours a reader should know of

The models have them, and properties are stated around them, each at its hazard:

* `evmclient.go:235` tests `err`, which is nil, where `receipt.Err` is meant: a
  cancelled transaction is never removed from `sentTxs`, and `PendingTxns` lists
  it for ever. (With the right test, line 250's `receipt.Receipt.Status` would
  dereference nil.) `MinedLeavesPending` is about mined transactions.
* A transaction that is mined quickly is gone from `sentTxs` when `WaitForReceipt`
  is called, which answers `tx not found` (`evmclient.go:277`); a deposit is then
  reported as failed. `PaidTwiceOnlyAfterError` says what can come of it.
* A connection may close after the handshake's last message and before `addPeer`
  (`libp2p.go:234`, `429`): `Disconnected` has found nothing to remove, and the peer
  stays registered with a dead connection. `isConnected` takes it for connected, so
  the bootstrapper stops trying; `BootstrapConnects` names this exception (`Stale`).
  In the same way a peer that is gone stays listed in the topology.
* An announcement that comes before the handlers or the bootnode's registration is
  lost and not repeated; `BidderFindsProvider` excepts it.
* The gater is asked before a connection is upgraded and not after (`conngater.go:70`):
  a peer may be blocked and connected. What then runs over that connection may even
  overwrite a block without an end by a shorter one. `BlockSticks` says what is left.
* A bid signed with a v of 0 or 1 passes `eipVerify` (`signer.go:158`) and is stored as
  it came (`preconfirmation.go:240`), and a contract that subtracts 27 recovers no
  bidder from it; `StoredAsSigned` tells the two forms apart. A signature of fewer than
  65 bytes makes `eipVerify` panic.
* `CancelTx` of a hash that another account sent (`evmclient.go:324`) takes that
  account's nonce, which may be past the window and leave a gap.
* `handlePeersList` with a context that nobody ends offers for ever while the loop
  waits for a permit (`discovery.go:83`, `133`); `BothEnd` excepts it.
* A mute peer keeps the `Connected` goroutine of every later joiner that has to
  tell it something waiting until it disconnects (`topology.go:67`).

## Fairness

* `ProviderBids!FairSpec`: a handler past its reading part runs, its context
  ends (the 5 s timer), a call that carries the context returns, a stream that
  holds a callback runs it. Nothing is assumed of the provider or the bidder.
* `TxMonitor!MonitorFairSpec`: the ticker fires, the loops run, blocks come.
  Strong fairness stands for "a call that is repeated for ever succeeds at
  some time" (`ReadHead`, `ReadNonce`, `BatchAnswers`) and for "an update that
  is offered with every block finds `checkLoop` idle at some time"
  (`UpdateTaken`): a check is finite, and the loop is back in its select between
  blocks. Without the last one the code gives no guarantee.
* `BidderSend!FairSpec`: the 10 s timer fires, goroutines run and their calls, which
  carry the context, return; the bidder's software takes what it is sent or its
  stream fails. Nothing is assumed of the providers.
* `Handshake!FairSpec`, where a node bootstraps: the bootstrapper's loop dials, its
  dial and its stream end, time passes (blocks with an end expire), and the goroutines
  and notifications of a connection go on. Nothing makes discovery call `Connect` or an
  operator stake, and nothing has to fail.
* `Stream!FairSpec`: each end goes on while it can, but for a handler that offers peers
  to discovery's loop. Contexts need not end.
* `Node!FairSpec`: `NewNode` and `Close` go on, and so does discovery while one of its
  goroutines can. Nothing is assumed of the bootnode or of the other peers.
* `Settlement!FairSpec`: a call under way goes on and the chain goes on mining. Strong fairness of `Start`: the ticker of the bidder's program repeats every
  hour, so it finds the account's calls idle at some time however often amounts are
  posted. Nobody has to post or to bid.
* `EvmClient!FairSpec`: goroutines run, calls under `mtx` return, the mutex is
  starvation free (strong fairness of `GoForget`), and settled waiters are told,
  which is `SettledIsTold`.

## Assumptions about the environment

The JSON-RPC node answers from one state and mined blocks are final. In `Registry`
it keeps a transaction until it is mined or replaced. Keccak256 is injective and
signatures cannot be forged. The contracts are outside of the repository: they add
what a mined transaction carries and take what they like. `TopUp` times the minimum fits into `Width` bits, which
the deployed minimum does; otherwise the validation rule refuses the bidder's
deposit for ever and `BidderBecomesAllowed` fails.

## Proofs

All theorems hold for every value of the constants under the named assumptions
of the modules (`None` is none of the other values, nonce bounds are naturals,
`Waiters` are the transactions' goroutines and the callers, batches are not
empty, at most one peer has joined the bootnode before the node starts, there is
a permit, there are two nodes to a handshake, what is recovered from a signature
over something else is nobody's address). TLC evaluates the assumptions in the runs.

Two assumptions of `Signer` and `Settlement` are there for the prover, which knows
nothing of powers and not that a model value is no tuple: `2^(Width-1)`,
`2^Width` and `2^(4*Width)` are positive and grow, and `Nil` is neither a hash
nor a signature. Block numbers and times are 64-bit integers, as in the protobuf
messages; amounts are any integers.

`ProviderBidsProofs`. The invariants are not inductive as they stand: that a
callback is run on an empty channel depends on who may own a map entry. `IInv`
adds that a map entry belongs to a handler of that digest which is past its
registration (`MapOwned`), that a handler before it is nowhere (`Unregistered`),
that an entry in the map, a callback held by a stream and a used channel exclude
each other (`StreamHolds`, `StreamsDistinct`), that distinct channels hold
distinct decisions of their own digest (`ChannelOwned`), and what each `pc`
implies for the history variables (`Progress`). `CallbackSafe`,
`OneCommitmentPerDecision`, `CommitmentJustified` and `WaitingIsReachable` follow.

`HandlersKeepPromise` maps `StoreCommitment` to `Commit`, `WritePreconf` to `Answer`,
every error return to `Fail` (`WriteFails` may be an `Answer`), and the rest to
stutters; it needs that a preconfirmation is written last.

`BidderSendProofs`. `Inv` says where a provider's preconfirmation can be: with its
goroutine, in the channel, or told (`Whereabouts`), dropped only once the
context is done (`Kept`), and backed by a commitment (`Backed`). Room in the channel
follows by counting: the provider that is about to push is not in it.

`EvmClientProofs`, the monitor. The truth of an answer depends on a nonce that was read
earlier. `MonitorIInv` carries it along: slots below `chainNonce` are filled for good
(`SlotsFilled`), every nonce read is behind the chain (`NoncesBehind`), what is
in `todo` is settled (`TodoSettled`), answers under way are true
(`RepliesTrue`), and until `watchLoop` has ended waiters in the map are untold (`MapUntold`).
`MonitorImplementsWatch` maps each step to a step of `TxWatch` or a stutter:
`ReadNonce` to `Confirm`, `Notify` to `Tell`, `WatchExit` to `TellClosed`.
`ToldOnce` says that a channel gets one result, and `PanicNeedsClose` bounds what the
run `tx_monitor_close` finds: before `Close` no channel in the map is closed.

The client. What must survive the gap between the two halves of `Send`
is what the chosen nonce was when it was chosen. `IInv` says that the pool and
the nonce in hand are within the window of the *stored* nonce (`Window`), and,
while nothing has been evicted, that the pool has no gaps, that `c.nonce` and
the nonce in hand are at most one past its end, and that a `Send`'s nonce is
still free (`Contiguous`). The key lemma `NonceIsFree`: `c.nonce` cannot be past
`PendingNonceAt`, so `getNonce` answers the latter. Nonces that `CancelTx` took from
other senders (`foreign`) are excepted from the window and may have a gap below them;
`PendingNonceAt` is the first gap, so `Send` fills it and is not led astray. `PoolWindow`, `NoNonceGap` and
`OnlyCancelReplaces` follow.

Once the pool has evicted a transaction the last two fail by design of the code:
`c.nonce` never goes back, so a gap stays until the node is restarted. They are
stated for `dropped = {}`.

`PeersProofs`. `RegisteredIsListed` is inductive over the types, which say that a
task's connection belongs to its peer. `MapsAgree` needs one more fact, that a stream
is not cancelled before its handler begins (`NotBegun`), and `CancelledOnLeave` needs
`MapsAgree`: `addPeer` makes a new map of streams for a peer that is not
registered, and loses nothing only because such a peer has no streams.
`BlockedStaysOut` (`BlockSticks`) is a property of single steps: only `InterceptSecured`
adds to `PastGater`, and it asks; and a handshake, which alone could lead to a shorter
block, needs an open connection to begin.

`NodeProofs`. Of two overlapping `Connected` calls neither need see the other's peer
when it adds its own; the argument is that the call which reads last does.
`TellInv` carries it: a peer that was added is listed until it leaves
(`AddedIsListed`), and for each pair that is past the reads, the news has been sent,
was lost, or is in the batch of one of the two calls (`BidderTold`, `ProviderTold`).
`NodeKeepsTopology` shows that the composition is still a `TopologySpec`, so that
`SomebodyTells` carries over. For the types, `StageRuns` says what is running at each
stage of the start, and `IsFiniteSet(workers)` makes the bound on the permits
inductive.

`StreamProofs`. `UpInv` and `DownInv` say, for each pair of positions of the two
ends, which sequences may be under way; that nothing is misread follows. `AnswerInv`
says where data and errors come from, and `QuietInv` that on a stream which
nothing disturbs no end can give up before the handler has returned, after which
the right answer is the one message under way, or read.

`HandshakeProofs`. Whether one end may register the other depends on what the other
has read, and that depends on what is under way. `IInv` says for every handshake which
pairs of positions its ends can be in and which of the four messages can be under way
then (`Position`), and which of the two nodes is admissible by then (`Consent`; keys
do not change and a stake is not withdrawn, so it stays so). `MutualConsent` alone is
not inductive: `addPeer` needs that both verifications lie behind an end at `add`, and
that is what `Position` and `Consent` say together. For `EndsAgree`, an open connection
has no end that has given up (`OpenIsSound`; giving up closes every connection), and is
registered exactly where a handshake on it is done (`RegisteredByShake`); when all have
ended, the dialling end is done exactly when the handling end is.

`AnswersPass` follows from `Position`: the response that is read was made from the reader's
own request, so `verifyResp` refuses nothing between two nodes that run this code.
`ForeverBlocked` is about the blocklist's one hard case, a later block that overwrites
one without an end. `BlockInv` carries the cause of each verdict (`Cause`): a node whose
signature is another key's fails at that check always, and the stake is not looked at,
so no block with an end can be on its way. While the block lasts no dial passes that end's
gater, so a connection begins only by a dial that had passed before, and uses that up.

`SettlementProofs`. `RegistryInv` ties the clients to the chain. A call that waits or reads is about
the last transaction of its account, which nobody has reported yet (`CallOK`, `TxOK`);
what took effect is in the deposit as long as nothing has been taken since, which the
transaction's `taken` says (`Covered`); so the amount read afterwards includes
it (`AnswerIsReal`). For `PaidTwiceOnlyAfterError` the program's own deposits are
told apart by their amount, which nobody posts (`Paid`): once one was made and reported, the
program's next look at the chain finds it and asks for no other, or finds a deposit from
which something was taken, and the next transaction is sent with a higher count. `OkIsMined` bounds what the run
`settlement_reverted` finds: an OK is wrong for reverted transactions only.

`BidInv` says of the bid in hand that it is one that was sent (`Sent`), that `bidder` is what
`VerifyBid` makes of it, and from `process` on that this account's allowance is enough
unless something was taken since `seen`. Its signature has a v of either form
(`BidSignatures`, `Fitting`); `CallData` keeps what the contract recovers from it.
`StoredAsSigned` then rests on the lemmas `Words` and `Int64Fits`: a number that passed the
validation rule and one of 64 bits that is positive are their own low bits, so what the
contract hashes is what was hashed off chain, at every width. `Unforged` adds that the address which `VerifyBid`
recovers is one that signed: it has an allowance, so it is a bidder's and not what
a signature over something else recovers to.

Only model-checked: the liveness properties (`HandlerReturns`, `SettledIsTold`,
`MinedLeavesPending`, `CallsEnd`, `CallEnds`, `BootstrapConnects`, `BothEnd`,
`BidderFindsProvider`, `ShutdownEnds`, `BidderBecomesAllowed`), which are out of the
prover's reach, and the two violations. Every other property of a run is also a theorem.

## Plan

Done: both sides of a bid, the transaction path, the peer layer, membership,
streams, announcements, the node's life and the settlement of bids and deposits, and
a proof of every property that is not about liveness. What is left to prove beyond
the runs' properties:

1. **Peers and Handshake**: that the registry of one node in `Handshake`, with the other
   end hidden, takes steps of `Peers`.
2. **BidderSend**: that a goroutine ends with its stream, and that the closing goroutine
   closes once, as action properties.
3. **Node**: that nothing of a node is left running once `Close` has returned, as an invariant.

## Not modelled

* Generated code: protobuf encoding, gRPC stubs and the gateway's marshalling, and the
  contract bindings. The messages are modelled where they are sent and read.
* HTTP and debug endpoints, metrics, logging, version, flags and options: no protocol
  state depends on them.
* The gater's rate limiter: with `rate.Every(1)` it lets a connection through each
  nanosecond.
* What the client programs do with bids: which bids they make up, their own timers and
  counters. `ProviderBids` and `BidderSend` let any client do anything that the API
  allows.
* The examples, the test doubles and the contracts themselves, which are external.
* Reorganisations of the chain, fees, and wiping keys from memory.
