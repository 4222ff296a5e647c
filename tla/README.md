# TLA+ models of go-fula

Models, model-checking runs and proofs for the parts of go-fula in which
several goroutines, processes, remote services and restarts meet. Each module
is a translation of the Go code under `src/`; `PROJECT.json` maps every
definition to its lines.

    tlc -workers 2 -config PoolReconcile.cfg MCPoolConfig     # a run
    tlapm PoolConfigProofs.tla                                # the proofs

## The system

A *blox* is a small server at home. Its `go-fula` process (`cmd/blox`,
`blox`, `blockchain`, `exchange`) runs beside kubo (IPFS) and ipfs-cluster
containers, and beside a second process, the WAP (`wap`), which serves setup
requests on the hotspot and the LAN. A mobile app embeds the client
(`mobile`) and reaches the blox over libp2p. Pools of devices, their members
and their join requests are kept by contracts on two chains, Base and Skale.

| Part | State it keeps | What changes it |
| --- | --- | --- |
| Pool membership (`blockchain/bl_pool.go`, `blockchain.go`, `cmd/blox/main.go`, `blox/pool_reconcile.go`) | `poolName` and `chainName` in config.yaml and in memory, the confirmed-membership and last-clear marker files, cached pool creators | join, leave, cancel-join and manifest handlers; Start's discovery; FetchUsersAndPopulateSets; the reconcile pass; the WAP; restarts |
| Kubo registration and watchdog (`blox/kubo_proxy.go`) | listeners and the cluster forward on kubo; counters and times of the watchdog | Blox.Start, watchKuboP2P, kubo restarts, host restarts |
| Mobile client (`mobile/client.go`, `config.go`, `blockchain.go`) | closed flag, in-flight counter, operation context, chat streams, host and datastore | operations of the app, Shutdown |
| Blox lifecycle (`blox/blox.go`, `cmd/blox/main.go`) | contexts, wait group, two servers, datastore, the stamp of the six-hour loop | Start, a signal, Shutdown, tickers |
| Remote calls (`mobile/blockchain.go`, `blockchain/`) | authorized peers | calls of the app, the owner's SetAuth |
| Exchange (`exchange/fx_exchange.go`) | authorized and temporarily authorized peers, the push breaker | push, pull, auth |
| Plugins (`blockchain/bl_plugins.go`) | list, parameter and status files | request handlers |
| Auto-pin (`blockchain/bl_autopin.go`, `wap/pkg/config`) | box_props.json | handlers of two processes |
| Chat streams (`blockchain/blox.go`, `mobile/stream_iter.go`) | a bounded chunk buffer | reader goroutine, GetChatChunk, iterator |
| WAP server (`wap/pkg/server`) | listeners and watchers | Serve, tickers, Close |
| WAP process (`wap/cmd`) | links, server and mDNS state, channels | main, HTTP and mDNS goroutines, handlers |
| Stateless parts | | EVM and gateway requests, wifi commands, IPFS RPC, `modules/`, `cmd/relay` |

What makes them hard to test: a step of one writer between two
steps of another, each under its own lock or none; reads of a chain that moves between
two calls; restarts between any two steps, some of them asked for by the
program itself; calls that fail half way; limits that must hold for all of
these. `PROJECT.json` lists these hazards with their lines.

## Modules

### PoolConfig

The two fields of config.yaml and everything that reads or writes them.
`file` is the file, `memChain` the `ChainName` of the shared `app.config`: the
accessors of `cmd/blox` load the file into it, so a key that the file lacks
keeps its value in memory (the WAP writes such files). Each use of `configMu`
is one step. A thread `th[t]` is a request handler, Start, or the reconcile
pass; `key` is the chain and pool it works on, `tries` the check it is at.

| Actions | Code |
| --- | --- |
| HandlePoolJoin, JoinSetPool, JoinSetChain | HandlePoolJoin |
| HandlePoolLeave, LeaveChain, then the shared steps | HandlePoolLeave |
| ReadMember, ReadRequest, CheckFails | ClusterPeerPoolStatus, and the loops around it in the leave handler and in ReconcilePoolConfig |
| ClearPool, ClearChain, CleanPool, CleanChain, CleanMark, Verify | clearPoolConfig, cleanLeaveJoinPool |
| SignalRestart | signalPoolConfigCleared |
| HandlePoolCancelJoin, CancelPool, CancelChain | HandlePoolCancelJoin; its fallback does its own clean-up |
| getClusterEndpoint, EndpointSetChain | getClusterEndpoint |
| Boot | before() in cmd/blox |
| NeedsDiscovery, DiscoverPool, DiscoverSet* | Blox.Start |
| FetchUsersAndPopulateSets, FetchSet* | FetchUsersAndPopulateSets, discoverPoolAndChain |
| ReconcilePoolConfig, ReconcileChain, RecheckPool, RecheckChain, MarkCleared | ReconcilePoolConfig |
| WapJoinPool | joinPoolHandler of the WAP |
| ChainStep, Crash, HostRestarts | the contracts, power loss, the host (external) |

Data left out: peer ids, messages and answers. A pool id "" is read as "0". The
24 hours of the reconcile interval are one Boolean, `recent`, which may become
false only between two passes: a pass lasts minutes. A file is written in one
step; the truncation that `os.WriteFile` starts with is not modelled. The blox
reads and writes the file under its lock, and the WAP takes no lock; each update is
one step nevertheless. A join of the WAP between the blox's read and write is then
the join that did not happen; a WAP that overwrites an update of the blox made
between its own read and write is left out. The
file that switches reconciling off is taken to be absent.

### KuboWatchdog

Blox.Start registering protocols on kubo (`start`), and watchKuboP2P
(`watch`). One HTTP call of kubo's API is one step. Time is
counted in `healthCheckInterval` ticks, and a time stamp is kept as its age,
so that the state space is finite. Counters stop at the limit they are
compared with. The gates of the watchdog are operators named after them
(`inLongCooldown`, `tooSoon`, `rateLimited`, `gaveUp`). `bounces`, `mine` and
`unhelped` are history that only properties read: restarts of the device, of
this process, and of this process since one helped.

### ClientLifecycle

Operations of the mobile client against Shutdown. An operation dials, looks the
blox up in the DHT and dials again, as ensureConnected and the DialContext of
the blockchain client do, then sends its request. `inflight` is the wait
group. A chat does not use the context it is admitted with and leaves a goroutine
in `streams`. `up` holds the resources that Shutdown has not closed. The
methods of `mobile/blockchain.go` all have this shape; they are one operation.

### ChatStream and ChunkBag

A chat from end to end: FetchAIResponse reads lines from the model's server
into a channel, handleChatWithAI writes them to the connection, the goroutine
of the app's ChatWithAI reads bytes and calls AddChunk, and the app takes
chunks with GetChatChunk or with an iterator. Chunks are numbers in the order
they were produced. `mu` is held across AddChunk's send to the bounded
channel, as in the code, and HasNext's goroutine, which sends a chunk
back, is a separate step. The connection may break at any time.

`ChunkBag` is what a stream promises: a bag of chunks to which chunks are
put, from which each is handed out once, and which ends. StreamIsBag says that
ChatStream implements it (`INSTANCE ChunkBag WITH`), where the bag is what
is in the channel and in the goroutines that send a peeked chunk back. It is a bag and not a queue because of HasNext; DeliveredInOrder says
that without an iterator the order is kept.

### RemoteCall

Every call the app can make of its device: a table of the client methods (the
status each takes for success), Sends (signing),
ProxyRefuses and ProxyAdmits (verifySignedRequest and `authorized`), one action
for each kind of handler that `dispatch` knows, and the client's verdict on the
answer. The three pool handlers are actions of their own: they answer differently
when their clean-up fails, and the one that cancels a join may panic. `done` is what
the device did, `told` what the app hears. Contents of requests and answers are left
out, and with them the texts of errors, which all calls parse into one package
variable, `apiError`.

### Exchange

Pull, which grants one peer a temporary authorization for the root, in place of
another peer's, and asks; HandlePull, which walks the graph and pushes its nodes, or
fails at a block that is not found and leaves the pushes it has begun; a push of one
node with the breaker that all pushes of a process share
(gobreaker, modelled from its use, external) and the retries; `authorized`,
which spends the temporary authorization unless the authorizer lets everyone in;
handleAuthorization. A retry sends a
request whose body has been read already, so it does not arrive (PushUnsent). No
request has a deadline: an attempt may stay in flight for ever.
The goroutine that removes expired temporary authorizations ends at once, since
Start cancels its context when it returns, so there is no expiry.

### BloxLifecycle

main, Start with its two servers and four goroutines, the six-hour loop,
the signal, Shutdown and main's last wait. Two contexts: Shutdown cancels the
blox's own, and main cancels its context after Shutdown; the kubo watcher
listens to main's only, so Shutdown always waits its twenty seconds. StopPingServer
is the ping server's end at the hands of a pool handler or the reconcile pass, before
Shutdown or during it. A block
file is new, or older than the stamp.

### PluginFiles, BoxProps

Files as the code treats them: read, truncate, write, each a step, with failures and
a death of the process between any two. PluginFiles has the lists of
active plugins and of updates and the parameter files, each opened and then filled,
under concurrent install,
uninstall and update. `Params` gives each plugin the parameters that every
installation of it brings. `cut` is history: the parameter files that an installation
beside another request has truncated and not filled. BoxProps has box_props.json under the auto-pin handlers
and the WAP's exchangePeersHandler, which replaces the whole file.

### WapServer, WapProcess

WapServer: Serve with the wait for the hotspot, the loopback and LAN listeners,
both watchers, and multiCloser. `append` without the mutex is a read and a
write. A bind fails only where the address is absent or in use. WapProcess: the
three goroutines of the process, handleAppState run by two of them, the channels
between them, what the wifi commands do to the two links, and the
mDNS configuration, a global that is reset and reloaded. `isConnected`, which
two goroutines write without a lock, is read as any of the values they write. A
load of the configuration may fail and leave the defaults, and a registration may fail
and leave nothing advertised.

### MCClientApp, MCBox

The parts of the app, and the parts of the device, in one run each. They share
no state, so a variable `focus`, chosen at the start, says which one moves: the
state space is the sum of theirs and not the product, and nothing is lost by it.
Some parts of the device are split further, into scenarios that leave out a feature
the other has: the WAP process with a device that connects or with a config.yaml that changes;
plugins without parameters or with one, updates, or a plugin with two parameters; the
blox with connections or with blocks that come in.

## Runs

| Run | Expect | Shows |
| --- | --- | --- |
| pool_reconcile | pass | TypeOK; ReconcileActsOnLeftMembership: a pass decides to clear only a pool the device was a member of and that was not listing it at some moment of the pass; ReconcileRateLimit: one clear per interval, over crashes |
| pool_left | pass | LeftPoolIsDropped: a running device does not stay configured, on the same chain, for a confirmed pool it has left |
| pool_left_offline | violation | LeftPoolIsDroppedAfterRestart: the same without asking for the chain to be configured |
| pool_leave_race | violation | LeaveClearsOnlyThePoolAsked |
| watchdog | pass | TypeOK, ProcessRateLimit, RestartsSpaced, UnhelpfulBounded, NoRestartInBootstrap |
| watchdog_device | violation | DeviceRateLimit |
| registration | pass | RegistrationRecovers: while kubo stays up, all listeners and the forward are there again and again |
| client | pass | lifecycle: TypeOK, DrainedBeforeClose, ShutdownIsPrompt; chat: DeliveredInOrder, CompleteMeansAll (an iterator that says it is complete has missed nothing), StreamIsBag, ReaderEnds (the reading goroutine does not hang on the mutex while the app reads); calls: DoneIsTold, UndoneIsTold; exchange: PushMeansStored, TempAuthsAreSpentOnce (per peer), PushesEnd and PulledRootArrives (if no attempt hangs for ever) |
| box | pass | WapServer: OnlyRaceLeaks, CloseReturns, HotspotIsServed; WapProcess: OneServer, ConfigIsAdvertised; PluginFiles: ParamsBeforeActive, InstalledStays; BoxProps: AnsweredIsStored, SecretIsStable; BloxLifecycle: DatastoreClosesLast, ListedOrSkipped, ShutdownExits (if no request lasts for ever) |
| client_host | violation | NothingUsesClosedHost |
| chat_end | violation | EndIsReported |
| wap_listener_race | violation | NothingBoundAfterClose |

Bounds. The MC module of PoolConfig gives the environment a budget of
requests, WAP joins, chain changes and crashes; what the process does in
response is not bounded. One pool on both chains is enough for chain
confusion. Five chain changes let a membership be gained, lost, asked for again
and approved, so that an approval falls between the two calls of one check
while an old confirmation is on disk. Two pools and two handlers are used
where one handler undoes the work of another. The watchdog's limits keep the
order of the real ones (grace <= gap <= window, bootstrap <= window), with a
window that holds three restarts; registration needs none of them and sets all
to 1. Two operations, a chat, a SetAuth and two Shutdowns give every pair of
racing callers. A chat has one line more than the channel holds, so that a full
channel happens with one more to come. One caller of RemoteCall makes all calls and
one overlaps it with another. There are two pairs of pulls: a graph and a node of it
from one peer, so that one pull's push spends what the other granted, and one node from two
peers, so that one pull replaces the authorization of the other. The breaker trips after
three failures, which one push reaches with its two retries, and two sooner. Two
handlers and two plugins, one plugin with two parameters, two callers of two
kinds on box_props.json, two LAN addresses beside the hotspot, two connections
to the blox give every pair. Deadlock is not checked in the PoolConfig runs and in
the client and box runs, where a used-up budget, a closed server or a process
that has ended may stop; it is in the others.

Fairness. Goroutines run and ticks pass (weak fairness on their steps), and the host
starts a stopped process or container. A remote call may fail, but not
every time (strong fairness on the success, for each of the two checks of a
pass and for each call of kubo). Without that, a device without network would
refute any progress. In ClientLifecycle the network is *not* fair: a dial or
a lookup may hang for ever, and only a cancelled context is sure to end it;
ShutdownIsPrompt excepts the two waits that no context ends, a chat being set
up and the exchange server's current request. In a chat only the app's goroutine and a
call of GetChunk are fair, the device and the connection are not. A select with
a closed stop channel takes it in the end although its ticker keeps firing
(strong fairness on LanStops and LoopEnds): Go's select chooses at random. Of the
exchange only the goroutines of a push are fair: an attempt starts or is refused, and
Push returns when all have. What the other peer does is not fair, since no request
has a deadline; PushesEnd and PulledRootArrives say what holds if no attempt stays in
flight for ever (`AttemptsEnd`). In the same way nothing is assumed of the requests to
the blox, whose shutdown has no time limit for them, and ShutdownExits says what holds if each
of them ends. The goroutines of the blox end because their calls have time limits.
The mDNS goroutine runs, and reading config.yaml and registering do not fail every time.

## Findings

* **pool_left_offline.** `blox/blox.go:554-556` says the reconcile drops a pool
  the device "has since left (e.g. from the app while it was offline)". Every
  start rewrites config.yaml without `chainName`. Discovery restores it only
  for a current member, and a pass without it returns at once. The pool
  stays.
* **pool_leave_race.** "Never clear a different pool than the one asked about"
  (`bl_pool.go:1228`). The pool is compared before the chain is asked, and
  not again: a join handled in between is cleared.
* **watchdog_device.** "Hard rate limit: at most this many bounces in any
  rolling restartRateWindow" (`kubo_proxy.go:45`). The list is in the memory of
  the process that each bounce replaces.
* **client_host.** inflight.Wait() "is guaranteed to drain every op that will
  ever touch the host" (`client.go:94-96`). The goroutine of a chat and
  SetAuth are not counted.
* **chat_end.** "Stream closed or errored out" (`mobile/blockchain.go:431`) is a
  branch that is never taken: StreamBuffer.Close drops its error, GetChunk then
  returns an empty chunk and no error for ever, and GetChatChunk loops.
* **wap_listener_race.** "access is guarded" (`server.go:48-49`). Serve's append of
  the hotspot's listener at 977 is not, and the LAN watcher is already running.

Seen while modelling, and excepted by name in the properties: DeleteWifi and
DisconnectWifi answer 200 where their clients expect 202, so a success is told as
an error; ManifestBatchUpload and ReplicateInPool answer 202 when nothing was
pinned; PoolCancelJoin answers 202 after a clean-up that failed or that it left out; two
installations of one plugin at the same time, one of which fails, may leave it listed with an empty
parameter file; a tick that stamps without a pool, or after a block came in, skips blocks.

## Proofs

Checked by TLAPS for all values of the constants, with the assumptions named
in the modules. They give the constants their types: a limit is a natural number, a
switch a Boolean, a graph a set of nodes with its root, and a caller's calls exist
(`ConstantsAssumption`, `PropsAssumption`, `ChatAssumption`, `ExchangeAssumption`,
`RemoteAssumption`). Names of different kinds differ (`HandlersAssumption`,
`PluginAssumption`, `WapServerAssumption`, `ClientAssumption`). Operations, connections
and blocks are finite in number (`ClientAssumption`, `BloxAssumption`). The watchdog's
limits are ordered as the code's are (`WatchdogAssumption`).
Every safety property of the passing runs has a theorem.

* **PoolConfigProofs**: TypeCorrect, ReconcileSound, ReconcileLimited. TypeOK is
  not inductive: a thread indexes `listed` with its key and writes parts of it to
  the file, so `TypeInv` adds that a thread past the choice of its pool
  holds one, and a thread that reads the chain holds a real chain as well.
  `ReconcileInv` adds three facts. *Memberships*: a current member, and a
  confirmed membership, is in `seen`. *Evidence*: a second check starts only
  for a key in `seen`, and either the key has been unlisted during this pass
  or it is a current member. That is the point of the second check: the first
  answer can be wrong only because a request was approved between its two
  calls, and then the second check finds a member. *Limit*: a clear leaves
  `recent` set, and a pass that may still clear began without it.
* **KuboWatchdogProofs**: RateLimited, Spaced, GivesUp, BootstrapGuard,
  WellTyped. `WatchInv`
  relates the process's own list to the true history: every restart younger
  than the window is in `history`, all are at least as old as `restartAge`, and
  pairwise MinGap apart, so the gates see what the properties count; the number of unhelpful restarts is at most
  `failed` plus the one still being judged; and a process that is at the relay check is
  past the bootstrap guard. WellTyped adds the
  Booleans, the steps and the listeners to the ranges `WatchInv` needs.
* **ClientLifecycleProofs**: Drains, ClientTypeCorrect. `LifeInv` says the counter
  *is* the number of admitted operations, that nobody shuts down before
  `closed` is set, and that nothing is admitted once closing has begun. Type correctness
  (a counter that never goes negative) rests on the same fact.
* **BloxLifecycleProofs**: StoreClosesLast, NoneForgotten. DatastoreClosesLast says
  nothing of how the requests came to an end. `ClosingInv` adds what each stage of
  Shutdown has achieved: a server that it has passed accepts nothing and has no
  request left, so none can start behind it. `TickInv` adds what a tick in progress
  has in hand, so that the stamp it writes passes only that.
* **BoxFilesProofs**: ParamsFirst, InstallLasts (PluginFiles), AnswerStored,
  SecretStable (BoxProps). The first two speak of the file, while the
  requests write copies they took earlier. `KeepInv` says that a request marked `alone` is the only one, that nothing is
  `kept` while one that is not alone runs, and that the copy of a
  lone request has everything that is kept. `ParamsInv` builds on it: a copy about to be
  written lists, besides the plugin being installed, only plugins whose parameters are
  all filled, being rewritten or cut short (`Provided`), and an
  installation has filled those it no longer has to write (`Sound`). A parameter that a
  lone installation truncates is not of a listed plugin, since the list it read is still
  the list: that is why only overlaps need `cut`. `BoxInv` has the same argument about
  box_props.json; besides, a lone request that writes has emptied the file itself, so
  what it writes cannot be mixed with another's. SecretStable is an action property:
  `SecretInv` says that what a lone request is about to write has the secret the
  app was given last, or none.
* **ChatStreamProofs**: DeliveredInOrderHolds, CompleteMeansAllHolds,
  ChatImplementsBag. All three need to know where every chunk is. `ChatInv` says that
  there is a number `k` such that the chunks added so far are exactly 1 to `k`
  (`Numbered`): each of them has been handed over, is in the channel or is being sent
  back, and in one of these places only (`BufferInv`); while the stream is
  open the reader holds `k + 1` and the network has the ones after it, all of them
  unless the connection broke (`OnTheirWay`); and without a peek they are in
  order (`InOrder`). `BloxInv` and `ReaderInv` are what the ends of the connection have
  to do for it: a chunk uses up a line of the model, the response ends with the
  handler, the reader closes when nothing is left to read. For the refinement, AddChunk
  to an open channel is Put of `k + 1`, a chunk taken is Hand, a close is End, and
  every other step stutters.
* **PeerCallsProofs**: PushMeansStoredHolds, TempAuthsAreSpentOnceHolds (Exchange),
  DoneIsToldHolds, UndoneIsToldHolds (RemoteCall). `PushInv` says
  that a goroutine that has pushed its node knows the node is stored; `AuthInv` that an
  authorization still there has been granted and not been spent. For the calls,
  the lemma ClientExpects compares the table of client methods with the statuses the
  handlers answer, method by method; `CallInv` then says that an answer on its way will
  be taken for what it is.
* **WapProofs**: OneServerHolds (WapProcess), OnlyRaceLeaksHolds (WapServer).
  `ServerInv` says that `opened` is 1 in exactly the steps of the HTTP goroutine between
  Serve and Close, and that the goroutine is forked once. `SocketInv` says that every bound
  socket is in the slice, in the hand of the goroutine that bound it, or lost, and
  that the watchers have ended when Close returns, so no hand is left.

Only model-checked: the liveness properties (LeftPoolIsDropped,
RegistrationRecovers, ShutdownIsPrompt, ReaderEnds, PushesEnd,
PulledRootArrives, CloseReturns, HotspotIsServed, ConfigIsAdvertised,
ShutdownExits), since TLAPS here proves no property under fairness. The properties of
the violation runs do not hold of the code, so there is nothing to prove.

## Plan

Safety theorems that would carry the liveness properties part of the way: what holds of
every state in which a waiting thread is stuck. An abstract life of the client (open,
draining, closed) for ClientLifecycle to refine, and a detailed write of config.yaml that
refines PoolConfig's one-step write except across a crash.

## Not modelled

The IPFS RPC handlers, gateway and manifest requests
and the one-shot programs in `modules/` and `cmd/` keep no state between calls; of the wifi
shell commands only the effect on the links is in WapProcess.
The ping and announcement servers are started by test programs only. Nothing creates the IPNI
publisher, and nothing reaches the hub publisher that is created instead. The blox's IPFS
server is never asked for. Libraries (libp2p, kubo, ipfs-cluster, gobreaker, the contracts)
appear as the answers and failures the code sees.
