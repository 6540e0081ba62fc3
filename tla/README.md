# TLA+ models of Anywherelan (awl)

awl is a peer-to-peer mesh VPN written in Go. Every node runs a libp2p host, keeps a
JSON config of the peers it knows, moves IP packets between a TUN device and
libp2p streams, answers DNS queries for the names of its peers, and can use another
node as an exit node (SOCKS5 proxy or VPN gateway). The modules in this directory
model the stateful parts of that program. TLC checks them on small instances, and TLAPS
proves the most important properties for all instances. Source paths below are
relative to `src/`.

Sections: 1 inventory, 2 plan, 3 modules, 4 runs, 5 proofs, 6 disagreements found while
modelling, 7 what is not modelled, 8 how to run.

## 1. Inventory

| Part | Source | State | Operations | What makes it hard |
|---|---|---|---|---|
| Friend list, auth and status exchange | `service/auth_status.go`, `config/invites.go`, `api/peers.go`, `api/settings.go` | known and blocked peers, invites, incoming and outgoing requests, selected SOCKS5 exit node | auth and status streams, add, accept, block, remove, invite, revoke, retry and status loops | handlers, API calls and two loops interleave between critical sections; answers are lost; a crash goes back to an older file |
| Config persistence | `config/config.go`, `config/other.go` | the config in memory, the file, the writer goroutine, the capacity-one trigger | Save, write, Close, load, import, backup of a corrupted file | asynchronous writer; the process can end between any two file operations; writes fail |
| VPN gateway mode | `service/vpn_gateway.go`, `service/tunnel.go`, `application.go`, `api/vpn_gateway.go` | config flags, tunnel binding, routes, NAT, DNS forcing | enable, switch, disable, server on and off, boot, shutdown, peer removal | four locks taken one after the other; OS operations fail half-way; crashes |
| Peer addresses and packet-routing maps | `config/network_addr.go`, `service/tunnel.go` | addresses of peers, DNS reservation, `peerIDToPeer`, `netIPToPeer` | allocate, check, refresh, close, restart | the refresh lags behind the config and visits Go maps in any order; the end of the subnet |
| OS network state | `vpn/netstate/*_linux.go`, `*_windows.go` | rules, routes, chains, NAT, WFP sessions, forwarding flags; the manager's record of them | setup, rollback, teardown, stale clean-up, re-sync by the route monitor or the network-change watcher | every kernel call can fail; kill between two of them; uplinks move during a setup; lost subscriptions |
| Tunnel data path | `service/tunnel.go`, `vpn/vpn.go`, `vpn/packet.go` | buffers, channels and batches of each VpnPeer, gateway pointer, roles | TUN reader, stream handler, inbound and outbound handlers, refresh, close | buffers change owner across goroutines; channels close under senders; tags and roles go stale |
| DNS service and resolver | `application.go`, `awldns/awldns.go` | resolver table, forced upstream, OS DNS policy, subscription | start, refresh, force upstream, close, answer | names are read under two locks; changes fall between refresh and subscription; the OS refuses |
| Application start and stop | `application.go`, `cmd/gomobile-lib/main.go` | what has been started, package globals | Init, Close, StartServer, StopServer, UpdateTunDevice | any step of Init fails and Close runs on what is there |
| Swappable TUN | `vpn/swappable_tun.go` | current inner device, closed flag, event channel | Read, Write, Swap, Close, event forwarding | a device is replaced under a blocked reader |
| P2P host | `p2p/p2p.go` | bootstrap peers, connections, relays | bootstrap, maintain connections, protect peers | callbacks of libp2p; timeouts |
| SOCKS5 proxy | `service/socks5.go`, `socks5/` | one connection: greeting, request, two copies | accept, proxy, serve | half-closed connections, missing deadlines |
| Socket marking on Windows | `vpn/netstate/sockmark_windows.go`, `sock_registry_windows.go` | uplink index, live sockets | create, bind, re-bind, drop | a socket created while the uplink changes |
| Event bus | `awlevent/awlevent.go` | subscriptions | emit, subscribe | emit while a lock is held |
| HTTP API | `api/` | echo server | handlers | handlers run concurrently with everything else |
| Wire protocol, checksums, ring buffer | `protocol/`, `vpn/packet.go`, `ringbuffer/` | none, or one buffer | encode, decode, write | numeric edges |
| CLI, tray, update, metrics, release tools | `cli/`, `cmd/`, `update/`, `metrics/`, `tools/` | none of their own | user interface | none for a model |

How the parts interact. An API call or a remote request changes the config (friend list,
addresses); the change is saved asynchronously (config persistence) and announced on
the event bus; the tunnel refreshes its packet-routing maps and the DNS service its
names from the config of that moment. The gateway binds one peer of the tunnel as
default next hop, asks the OS network state for routes or NAT, and forces the DNS
upstream. The application starts all of this in order and stops it in reverse.

Properties per part: section 4 lists those that are checked; what each hard behaviour in
the code needs is listed at its line under `hazards` in `PROJECT.json`.

## 2. Plan

Done: the modules of section 3, among them gateway transactions that overlap, socket
marking, P2P maintenance, SOCKS5 sessions and the checksum algorithm; twelve runs; and
proofs of the safety properties of nine of the components (section 5). Left, in
this order:

1. **Proofs of `Netstate`.** Its invariants are checked by TLC only. They need an invariant
   about the remaining steps of each script of NetScripts.
2. **VPNGateway composed with Netstate**, in which the flags `routes` and `nat` of the
   first are implemented by the scripts of the second (a refinement).
3. **Event bus** (`EventBus`): bounded subscriber queues and callers that hold the config
   lock; property: no cycle of waiting (`config/config.go:336`). The bus is a library, and
   whether the queue can fill depends on it.

Left out on purpose: dial ranking (`p2p/`, an ordering without state) and the log ring
buffer (`ringbuffer/ring_buffer.go`, a sequential byte buffer under one lock).

## 3. Modules

A step of a model is one critical section of the code (one acquisition of a lock, one
channel operation, one system call or one network exchange), so that everything
another goroutine can do in between is an interleaving TLC explores. Data is reduced to
what the decisions of the code look at. `MC*.tla` modules add model values, symmetry
sets, for Proxy and PacketFlow the choice of initial states, and for the gateway a bound. Operators marked "Mutant" ("Alternative of"
in Lifecycle), and a few that stand just before the definition they vary, are
plausible wrong variants of that definition; they are used to confirm that each
property can fail and are no part of any specification. Variables called a history
record what happened for the sake of a property and decide nothing.

**AuthStatus** (`service/auth_status.go`, `config/invites.go`, `api/peers.go`,
`api/settings.go`). Handlers, API calls and the two background loops are goroutines
`gor[g]` with a program counter, the peer they work on and what they have read;
`knownPeers`, `blockedPeers`, `invites`, `usingPeerID` are the config, `ingoingAuths` and
`outgoingAuths` the maps under `authsLock`, `disk` the last file written. `Step`
advances one goroutine through AuthStreamHandler, AddPeer, SendAuthRequest,
ExchangeNewStatusInfo or StatusStreamHandler; `Call` starts a call; `RetryTick` and
`ExchangeAll` are the loops; `WriteConfig` is the config writer and `Crash` goes
back to the file. Remote peers are unconstrained: any request and any answer, at any
time, or none. Names, aliases and addresses are left out.

**ConfigStore** (`config/config.go`, `config/other.go`). The config is a version number
that each change increments. `Save` is the non-blocking send; the writer goroutine is
`WriterTriggered`/`WriterClosed`, `Marshal`, `Stage`, `Rename`, `WriteFailed`; `Close` waits
for it; `Exit` ends the process anywhere, `LoadConfig`, `NewConfig`, `LoadCorrupted`
are the starts and `ImportConfig`, `Damage` what may happen to the file in between.
**DurableStore** is the abstract promise: one durable value that only moves
forward while the process runs, to values that were in memory, and that a start comes
back with. The mapping takes `disk` to `fileVer`.

**VPNGateway** (`service/vpn_gateway.go`, the binding in `service/tunnel.go`, the gateway
parts of `application.go`, `api/`). Routes, NAT and OS DNS policy are flags;
`gateway` is the tunnel's binding, `confGateway` and `confServer` the config, `disk` the
file. API calls run in `Workers`, Init and Close in `Main`; each action is one section under
`VPNGateway.mu`, `peersLock`, `DNSService.mu` or the config lock. Routes, NAT and the
OS resolver may refuse (the history `refused` has whether the last change of the resolver
was), peers may withdraw their permission, the refresh may be late, and the process may
crash. Calls overlap: up to `MaxCalls` transactions are inside the code at once. The
history `torn` has the views (`client`, `server`, `dns`) that transactions which overlapped
may have left in disagreement; a transaction that starts alone mends its own: an enable
the client's, a disable the client's and DNS, server on or off the server's, a start
all of them.

**PeerTable** (`config/network_addr.go`, `service/tunnel.go`). Addresses are numbers of a
subnet `Network..Broadcast`; `GenerateNextIpAddr`, `CheckIPUnique` (operator `Free`) and the
choice of the DNS address are operators translated from the code. The IPv6 address of a
peer is the one it reports (`Reported`, which may repeat), a second key of `netIPToPeer`;
`Rekey` moves a key as the code does, deleting the old entry first. RefreshPeersList
is one step per iteration of its two loops over Go maps, in any order. `Restart` reloads
the config and recomputes the DNS reservation.

**NetScripts** and **Netstate** (`vpn/netstate`). NetScripts writes every setup,
rollback, teardown and stale clean-up of the two platforms as a sequence of
steps on kernel objects, each with what an error at that step leads to. Netstate runs
these scripts under `Manager.mu` against a kernel that may refuse any step, moves the
host's default routes at any time, loses the netlink subscription, kills the process
between two steps, and runs the route monitor (Linux) or the network-change watcher
(Windows). `rs` and `ns` are `routeState` and `natState`. The permits and the block of a
fence are steps of their own for each family and go away with its session; the bypass
routes are replaced by deleting the old ones before adding those of the new uplink.

**PacketFlow** (`service/tunnel.go`, `vpn/vpn.go`, `vpn/packet.go`). A buffer is in the pool,
in the TUN reader's slice, in a stream handler, in a channel or in a handler's
batch. The reader holds `peersLock` for reading over a batch, so RefreshPeersList and
Close exclude it; stream handlers and the handlers of a VpnPeer interleave with
everything. A VpnPeer is an instance number, so that a removed and re-added peer is
told apart from its former self. One outbound handler stands for the
`ParallelSendingStreamsCount` of a peer: each owns the batch it took from the channel.
`panic` records a send on a closed channel. Batches are sets of buffers and channels are
sequences of them.

**Checksum** (`vpn/packet.go`). RecalculateChecksum and what it calls as operators, over
packets whose words have `W` bits instead of 16: full sums, the incremental adjustment for
new addresses where the payload is not there in full, and the walk over the IPv6
extension headers. Its one variable `wire` is a datagram, whole or in fragments, and
`WriteInbound` the rewriting of all its pieces by the receiver. It shares no state with
PacketFlow, so `MCPacketFlow` runs it beside a data path at rest.

**DNS** (`application.go`, `awldns/awldns.go`). The holder of `DNSService.mu` works off a list
of steps `todo`; config changes come in between. `cfg` is what the resolver has published,
`os` what the operating system sends to it. The event bus keeps the last event for new
subscribers (`last`). `dnsLocalDomainHandler` and `ptrHandler` are the answers as operators;
two peers may have one name or one address, and the order of Go's maps decides between them.

**Lifecycle** (`cmd/gomobile-lib/main.go`, `application.go`, `vpn/swappable_tun.go`). The
host's call in progress is `pc`; every step of Init may fail and is followed by Close
on what has been built. `wrap` and `dev` are the SwappableTUN wrappers and the inner
devices, `io` the goroutines inside Read and Write, `fwd` the event forwarders. The host is
trusted to stop a server before it starts another (StartServer does not check), but may
hand over a descriptor although the config disables the VPN (`off`). A read may
fail for another reason than a closed device, which ends the reader for good
(`ReadError`), and API handlers may outlast the second that Close gives them.

**SockMark** (`vpn/netstate/sockmark_windows.go`, `sock_registry_windows.go`, `uplink_windows.go` and the
watch goroutine of `manager_windows.go`). A step is one atomic load or swap of an
uplink index, one critical section of the registry, one scan of the routing
table or one socket option. `task[s]` is `bindSocketToUplink` of the creation of socket
`s`, `watcher` the goroutine of Start and then of watch with its debounce timer. The
history `stale` has the sockets whose creation wrote an index that had been
replaced meanwhile, or whose option was refused; `blind` the families whose scan
failed or that changed before the callbacks were registered.

**P2PHost** (`p2p/p2p.go`). Bootstrap with one dial per bootstrap peer and its timeout, the loop
MaintainBackgroundConnections that connects to the known peers, and their protection
from connection trimming, with peers added and removed at any time. The history `kept` has the
peers that are known since the round took its list, `leaked` those that a round protected
when their removal was over already, `lost` those that an earlier removal unprotected when they
had been added again.

**Proxy** (`service/socks5.go`, `socks5/`; extends P2PHost). A SOCKS5 session is a client, the
local node, a stream and the exit node: accept loop, ServeConns, proxyConn with its
authentication and its two copies, and ProxyStreamHandler. The client may fall silent or
leave at any time, the target behind the exit node may end or never do.
Application.Close cancels the context, closes the proxy and then the host, so the two parts
meet there.

## 4. Runs

| Run | Module, fairness | Instance | Shows |
|---|---|---|---|
| AuthInvite | AuthStatus | 2 peers, 1 invite with the use limit 1 or 0 (which the code takes for 1), 2 goroutines in flight, 1 crash | `InviteUses`: no invite admits more peers than its uses; `RedemptionAtomic`: a use is spent in the very step a new peer enters with it, and only while the invite is usable |
| AuthLoops | AuthStatus, weak fairness of the status loop | 1 peer, auto-accept, all entry points but invites and the callback for a new connection (which AuthInvite has), 2 workers and both loops, 2 in flight | `ConfirmedHeard`: only a peer that contacted us is confirmed; `NoResurrection`: a status answer that arrives after RemovePeer does not bring the peer back; `StaleOfferHealed`: an offer left by a duplicate request goes away, if no remote keeps the status loop waiting for its answer for ever |
| ConfigStore | ConfigStore, weak fairness of the writer | 2 mutators, 3 changes, 2 starts | `NoLostSave`, `CloseFlushes`, `CorruptPreserved`, `SaveReachesDisk`, and the refinement `ImplementsDurableStore` |
| Gateway | VPNGateway | 1 peer, 2 workers, 2 transactions at once, a saved gateway that may be malformed, failing routes, NAT and resolver settings, crash at any step, the file at most one field behind the config | `NoBlackHole`, `ClientAgrees`, `ServerAgrees`, `NoDnsLeak`: routes, binding, config, NAT and DNS agree, except for what an overlap has torn until a transaction runs alone |
| PeerTable | PeerTable | 2 peers on an 8-address subnet with room to run full, 2 reported IPv6 addresses, 3 changes per refresh | `NoStaleRoute`, `SubnetAddressesUnique` |
| PeerTableBurst | PeerTable | the same with bursts of 2 changes | violates `Reachable`; see section 6 |
| Netstate | Netstate | Linux and Windows, 2 uplinks (one with IPv6), 3 calls, 1 trouble at any point | `NothingForgotten` (forwarding flags included), `FailClosed`, `ExemptionsFollow` |
| SockMark | SockMark, fairness below | 1 socket of a kind with both families or of unknown family, 2 uplinks, 1 change, 1 failure, bursts of 1 | `BoundToUplink`: open UDP sockets are on the current uplink; `IndexFresh`: no change of the network is lost; `Redetects`: a burst that never ends still leads to a re-detection; `ClosedEvicted`: the registry lets go of closed sockets |
| PacketFlow | PacketFlow, Checksum | 2 peers, 4 buffers, batches of 2, channels of 1, 2 packets, 2 changes; words of 3 bits, 4 values for addresses and payload | `OwnedOnce`, `NoSendOnClosed`, `TagsTrue`, `ForwardNeedsRole`; `RewriteVerifies`: a packet whose addresses the receiver rewrote verifies if it did before |
| DNS | DNS | 2 peers, a name they may share, 2 IPv4 addresses and 1 IPv6 address, 3 changes and refusals | `ResolvesKnownPeers`, `ReverseCurrent`: names and addresses answer for the peers that have them now; `NoLeak` |
| Proxy | Proxy, fairness below | three kinds of nodes: 3 bootstrap peers and no known peer; 1 peer added and removed in 3 changes with at most 1 bootstrap peer; a running node with a listener and 2 connections, of which 1 may reach an exit node | `ProtectionFollows`, `BootstrapEnds`, `KeepsDialing`, `NobodyWaits`, `SessionEnds`, `ServicesStop`: nothing hangs on silent peers, a session whose client left ends on both nodes unless its target keeps it, and all loops stop |
| Lifecycle | Lifecycle, weak fairness of the call in progress and of the goroutines | 2 starts, 2 descriptors, VPN on or off, every step may fail | `SwapInvisible`, `DevicesOwned`, `CloseQuiesces` |

Distinct states and times with two workers: AuthInvite 149,363 (12 s), AuthLoops 327,919
(45 s), ConfigStore 222,868 (15 s), Gateway 491,590 (27 s), PeerTable 1,675,876 (50 s),
Netstate 460,331 (25 s), SockMark 129,856 (31 s), PacketFlow 494,094 (54 s), DNS 910,670
(45 s), Proxy 132,187 (65 s), Lifecycle 936,362 (127 s).

**Bounds.** Two peers are enough for every property that relates two peers (two requests
for the last use of one invite, two peers with one address, one peer's packet in
another's queue); properties about a single peer and its own history use one peer and
spend the states on goroutines. Two goroutines in flight exhibit every race between
two critical sections; races of more are covered by the proofs. `MaxVersion` 3 lets a
save come before, during and after a write. `MaxUnsaved` 1 keeps the gateway's file within one
field of its config: a transaction changes one field, so a crash still loses the last
change or none. One trouble per behaviour in Netstate puts a
failure, a kill or an uplink change between any two steps of any script; combinations of
two independent troubles are not explored. Two VpnPeer instances in PacketFlow are one
peer that is removed and added again, or two peers. Channels of capacity one are full
after one packet, so that the drop paths are taken. One socket in SockMark is enough
because sockets meet only in the registry, and the proof is for any number. The
three kinds of nodes of Proxy are separate because the host and the proxy share
nothing but Application.Close. Words of three bits in Checksum have all the carries that
words of sixteen have, with few packets. Two starts in Lifecycle show what a failed start
leaves for the next one.

**Deadlock** checking is off in the Netstate, SockMark, PacketFlow, DNS, Proxy and Lifecycle
runs: these models stop when the bounded supply of calls, packets or changes is
used up or when the application is closed, which is not a deadlock of the program.

**Fairness.** The status loop is driven by a ticker, and libp2p bounds its dials and the
opening of streams, so those steps are weakly fair; nothing bounds the wait for the answer
of a remote, as the streams have no deadline, so that step is not. The config writer is a
goroutine that blocks only on its channels, so it is scheduled whenever it can step; failed
writes are covered by the property's own exception. In Lifecycle the call in progress and
every runnable goroutine are scheduled by the Go runtime; those that take finitely
many steps (loops, accept loop, event forwarder) share one condition, which is enough for
them; the host is never obliged to make a call, nor an API handler to return. In SockMark
the watcher goes on when it can (weak), its select takes each ready case in the
end (strong, because another case may be chosen and disable it for a while) and its
timer runs out (weak). In Proxy timers fire, runnable goroutines go on, a dial or a ping
returns once its context is done, a select whose context is done does not choose the
ticker for ever (strong), and the exit node handles a request it has. Nothing is assumed about
the client (that it speaks or leaves), the target (that it sends or ends), the
success of dials, lost links or API calls. No fairness is assumed of remote peers, users,
the kernel or the network otherwise.

**What is weaker than it looks.** The gateway properties except the views in `torn`, that is,
after an overlap of two transactions until the next one that runs alone; the
disagreements are real (section 6), and the run shows that nothing else causes them and
that they are repaired. `NoDnsLeak` also excepts a resolver setting the OS refused, until the
next change. `BoundToUplink` excepts the sockets in `stale`, `IndexFresh` the families in
`blind` and `ProtectionFollows` the peers in `leaked` and `lost` (section 3). `NoLeak` is
stated for a configuration the OS accepted, because the code logs a refusal and goes on, and
ends with Close. `NobodyWaits` excepts clients of a listener whose accept loop gave up, and
`SessionEnds` a session whose target neither sends nor ends. `ExemptionsFollow` excuses copies
the kernel refused or purged (`missed`), and `NothingForgotten` those a failed removal or
a kill left (`slips`). `RewriteVerifies` leaves out IPv4 fragments, `DevicesOwned` excepts
an application whose Close panicked or whose config disables the VPN, and `CloseQuiesces`
API handlers that outlast Shutdown and the event forwarder of such a config (all section 6). `Reachable` excuses peers with the same address.

## 5. Proofs

All proofs are checked by TLAPS with Z3, Zenon and LS4. They hold for every value of the
constants that meets the named ASSUMEs of the component module: any peers, goroutines,
devices, sockets and sizes, so also any number of overlapping calls.

| Module | Theorem | Statement | Argument |
|---|---|---|---|
| AuthStatusProofs | `TypeCorrect` | `Spec => []TypeOK` | `TInv` adds `Busy`: a goroutine inside a handler works on a peer, and inside AddPeer it has a caller. One lemma per handler (`AuthHandlerTyped`, `AddPeerTyped`, ...), combined in `NextTyped` |
| | `InviteUsesHold` | `Spec => []InviteUses` | `UInv` strengthens it to the file as well: a crash goes back to `disk`, so the bound must hold there. Every step either admits nobody (`StepAdmits`, `CallAdmits`) or is the insertion of AddPeer, which adds one peer and one use (`InsertKeepsUses`) |
| | `RedemptionIsAtomic` | `Spec => RedemptionAtomic` | the same case split, on the action |
| | `NobodyResurrected` | `Spec => NoResurrection` | on the action, under `TInv`: only the insertion of an AddPeer, which has a caller, makes an unknown peer known |
| | `ConfirmedWereHeard` | `Spec => []ConfirmedHeard` | `HInv`: the file satisfies it too, and every confirmation still in progress (a request being handled, an offer that waits for the user, an AddPeer for either, a status about to be merged) is backed by a peer that was heard |
| ConfigProofs (ConfigStore) | `TypeCorrect` | `StoreSpec => []StoreTypeOK` | Boolean flags are separated from numbers |
| | `SavesAreKept` | `StoreSpec => []NoLostSave` | `CInv` adds `Ordered` (disk, promise and what the writer carries are never newer than memory, and the writer never older than disk) |
| | `CloseIsFlush` | `StoreSpec => []CloseFlushes` | `Flushing`: the final round carries at least what Close found |
| | `CorruptedIsCopied` | `StoreSpec => []CorruptPreserved` | `Preserved`: a corrupted file is copied, or still there while the process is down |
| | `Refinement` | `StoreSpec => ImplementsDurableStore` | `StepRefines`: under `CInv` every step is a step of DurableStore or a stutter |
| VPNGatewayProofs | `RoutesAreBound` | `Spec => []NoBlackHole` if the client is supported | `IInv`: unless everything is torn at most one transaction runs (`Serial`); while the client's view is not torn, what start and stop have done (`ClientLife`), what the transaction in progress knows (`Progress`), that routes have a bound, known gateway, the configured one (`Bound`), and that the views agree outside transactions (`Settled`) |
| | `ViewsAgree` | `Spec => []ClientAgrees`, same assumption | `Settled` of the same invariant |
| | `ServerViewsAgree` | `Spec => []ServerAgrees` if both roles are supported | `ServerInv`: the flag follows NAT when it is set and precedes it when it is cleared |
| | `ResolverForced` | `Spec => []NoDnsLeak` if the client is supported | `Resolver` of `IInv`: the OS has the policy of the flag unless it refused it, and the flag is set while routes are installed |
| ConfigProofs (PeerTable) | `RoutesAreFresh` | `Spec => []NoStaleRoute` | `IInv` is the conjunction of `TypeOK`, `NoStaleRoute` and `SubnetAddressesUnique`, which is inductive as it stands; `RekeyMoves`: moving a key leaves no entry at the old one |
| | `AddressesAreUnique` | `Spec => []SubnetAddressesUnique` | `Generated`: the next address is above all assigned ones of the subnet and not a reserved one; `DNSIPFree`: the reservation is free at every load |
| HostProofs (SockMark) | `IndexesAreFresh` | `MarkSpec => []IndexFresh` | `FreshInv`: a change of a family is in its index, or a notification, the timer, the scan or the swap that will bring it there is still to come |
| | `SocketsAreBound` | `MarkSpec => []BoundToUplink` | `Registrations`: an open UDP socket is registered before its creation reads anything. `BoundInv`: its option is the index, or the watcher has replaced the index and owes the socket a turn (`Due`), or it is excused, or its creation has still to write the option and has read the index of now |
| PacketFlowProofs | `ClosedUnused` | `Spec => []NoSendOnClosed` | `IInv`: the maps lead to open VpnPeers of the right peer (`MapsRight`, `ClosedApart`), the gateway pointer agrees with them until Close (`GatewayRight`), and no batch is handled after Close (`HandlesOpen`) |
| | `BuffersAreOwned` | `Spec => []OwnedOnce` | `BInv`: every buffer sits in one place, no queue holds one twice, and the reader's loop stays within its batch. One lemma per way a buffer moves; what the pool hands out are distinct free buffers (`HandoutRight`) |
| | `TagsAreTrue` | `Spec => []TagsTrue` | `TagInv`, on top of `BInv`: free buffers and those not handled yet carry no tag, those on their way out a true one |
| | `ForwardingNeedsRole` | `Spec => []ForwardNeedsRole` | `RoleInv`, on top of `BInv`: while the server role is on every packet on its way in has seen it on, and a reading "server" of a handler covers its whole batch |
| HostProofs (P2PHost) | `ProtectionHolds` | `Spec => []ProtectionFollows` | `IInv` adds what holds while a round is still visiting its list: what it has to keep is known, and protected, lost or to come |
| DNSProofs | `NamesAreCurrent` | `Spec => []ResolvesKnownPeers` | `IInv`, by the place in the program of the holder of `DNSService.mu` (every `todo` is a suffix of one of three): `Current`, that unless a change is still to be announced (`Pending`) a half-read table has the IPv4 names of now, and one just published, or any after the subscription, has both families. An operator for "the table is that of the peers known now" (`Correct4`, `Correct6`) is shown to be what the code reads (`MappingCorrect`) |
| | `ReverseIsCurrent` | `Spec => []ReverseCurrent` | `Backed`: the reverse table is made of the two forward tables published with it, so `Current` carries over |
| | `QueriesDoNotLeak` | `Spec => []NoLeak` | `Capture`: where the forced upstream was chosen, the policy that goes with it is what the OS gets, unless it refused |
| LifecycleProofs | `SwapsAreInvisible` | `Spec => []SwapInvisible` | `SwapInv`: whom a wrapper belongs to, what the call in progress holds, and that a reader that got os.ErrClosed from a device either sees the wrapper closed or a newer device |
| | `DevicesAreOwned` | `Spec => []DevicesOwned` | `OwnInv` adds that a Close that panicked panics again at the same place (`Panicked`), that a running server uses the wrapper it was started with unless its config disables the VPN (`Running`), whose wrapper the package variable holds (`Globals`), and who owns every open device also during a call (`Owned`) |

ConfigProofs and HostProofs hold the proofs of two components each, which share no
variable; that is why ConfigStore and SockMark name their specifications `StoreSpec` and `MarkSpec`.
The larger inductive invariants (those of PacketFlow, Lifecycle, SockMark and DNS) were also checked
by TLC, on the instance of the run. The theorems with a property of a run state exactly the definition that the run checks.

Only model-checked:

- liveness, which is beyond this prover: `StaleOfferHealed`, `SaveReachesDisk`, `Redetects`,
  `ClosedEvicted`, `BootstrapEnds`, `KeepsDialing`, `NobodyWaits`, `SessionEnds`,
  `ServicesStop`, `CloseQuiesces`;
- the safety properties of Netstate (`NothingForgotten`, `FailClosed`, `ExemptionsFollow`),
  which are next (section 2);
- `RewriteVerifies`: the sums are folds over the words of a packet, and what they compute
  for every packet needs induction over data. It is evaluated for all packets of the
  run's small words.

## 6. Disagreements found while modelling

One is kept as a run that TLC refutes:

- **PeerTableBurst, `Reachable`** (`service/tunnel.go:219`). When one refresh copies two
  changes and a peer's new address is another peer's old one, the later iteration, or the
  deletion of a removed peer (`:250`), deletes the new owner's entry of
  `netIPToPeer`. That peer then receives no packets until its address changes again.

The others come from reading the code for the models or from trial runs, and are
described here only.

*Friend list.*
- A block set while an auth request of the same peer is in flight is lifted by AddPeer
  (`service/auth_status.go:478`); the comment at `:282` says "Blocking outranks an invite."
- A request in flight re-inserts a removed peer into `outgoingAuths` (`:397`), and the retry
  loop goes on; the comment at `:161` says "Stop retrying our own auth request to a peer
  we just blocked or removed."
- A peer that declines us keeps `Confirmed` (`:204`); the comment at `:201` says it stays
  "as not-confirmed".
- The status streams have no deadline (`:142`): a remote that takes the stream and never answers
  keeps BackgroundExchangeStatusInfo from visiting the other friends until the connection ends.
- The exit-node permission is checked on a copy and the selection written later
  (`api/settings.go:180`), so a selection made while the permission is withdrawn survives
  `clearSelectedExitNode` (`service/auth_status.go:242`). Each proxied connection looks at the
  permission again, so only the stored selection is stale.

*Gateway.* The comment at `service/vpn_gateway.go:68` says that `mu` serialises whole
transactions; the code holds it for parts of them. The first four below happen when
transactions overlap; the models have them in `torn`, and the next transaction that runs
alone repairs its view.
- An enable between `teardownClient` and `ClearVPNGatewayPeer` of a disable (`:193`) leaves the
  routes installed with nothing bound.
- RemovePeer checks for the active gateway and removes the peer under separate locks
  (`api/peers.go:323`, `:328`); an enable in between leaves routes with nothing bound.
- Overlapping server on and off (`service/vpn_gateway.go:216`) end with the flag on and no NAT.
- The API outlives `TeardownAtShutdown` (`application.go:309`): a call answered in between
  installs OS state that survives the process.
- A malformed saved gateway is cleared at start, but the DNS upstream that `initDNS`
  forced stays forced, because `teardownClient` returns early (`service/vpn_gateway.go:411`); the
  comment at `:408` says "DNS was never forced upstream either".
- Routes that cannot be installed at start wipe the saved choice (`:179`); the comment at
  `application_gateway_test.go:1241` says "Config must be left as-is".
- With the gateway enabled on a system without support the program logs and starts
  (`:254`); `README.md:267` says it refuses to start.

*Addresses.* `GenerateNextIpAddr` runs past the broadcast address when the subnet is
full (`config/network_addr.go:136`, `:145`), and then returns the same outside address
again for the next peer; `SubnetAddressesUnique` is stated for addresses inside. IPv6
addresses are taken as the peers report them (`service/tunnel.go:216-233`): of two peers that
report one, the later entered has it, and the removal of either deletes the entry.

*OS network state.*
- Linux: when the removal of the TUN default fails the state is dropped anyway
  (`vpn/netstate/manager_linux.go:125`), and every later enable finds the route in place and fails.
- Windows: bypass routes sit on the physical uplink, survive a kill, and make the next
  creation fail (`vpn/netstate/routes_windows.go:216`).
- Linux: a copy that the kernel purged with its link is not put back when the same
  default returns before the next tick (`vpn/netstate/routes_linux.go:568`).
- `README.md:350` says the IPv6 block a kill leaves on Linux is "removed automatically on
  the next awl start (and stop)"; the code removes it on the next enable.
- Windows: `bindSocketToUplink` reads the uplink index and then sets the option
  (`vpn/netstate/sockmark_windows.go:91`); a re-bind in between is overwritten with the old index,
  until the uplink changes again (`stale` in SockMark).
- Windows: the comment at `vpn/netstate/manager_windows.go:182` says that EnableServerNAT "must never
  delay socket re-binding — only the re-sync itself"; the watcher goroutine waits for `m.mu` in the
  re-sync, so that the re-detection of the next change is delayed with it.
- Windows: a change between the first detection of Start and the registration of the
  callbacks (`vpn/netstate/manager_windows.go:82`) is not noticed until the next one (`blind` in SockMark).

*Packets.*
- The comment at `vpn/packet.go:127` keeps IPv4 fragments from being dropped ("it would drop
  legit non-first IP fragments"), but RecalculateChecksum sums a fragment as if it
  were a whole packet (`:155`), so a rewritten fragmented packet does not verify.
- The comment at `vpn/packet.go:191` says Routing headers are handled correctly; `ipv6UpperLayer`
  says "Routing Header is deliberately not handled here" (`:283`).

*DNS.*
- `admin.awl` is overridden in the IPv4 names only (`application.go:619`): with a peer named
  admin it answers A with this machine and AAAA with that peer (`README.md:139`).
- Domain names are not checked for uniqueness (`api/peers.go:121`, `README.md:190`).
- A refused `SetDNS` leaves `forceUpstream` set, returns nil, and is not retried
  (`application.go:594-606`).
- An API call that outlives `Dns.Close` may still make ForceUpstreamDNS set the system's
  resolver (`application.go:606`), and nothing resets it.
- `Shutdown` of a DNS server that has not started yet leaves its listener (`awldns/awldns.go:192`).

*Start and stop, others.*
- When the API address cannot be bound, `Handler.echo` is still nil, so `Application.Close`
  panics in `Handler.Shutdown` (`api/api.go:225`) before it closes the VPN device; the comment at
  `cmd/gomobile-lib/main.go:145` says "Application.Close closes the VPN device, which closes
  globalSwapTUN." The same happens after a failed `InitHost` (`p2p/p2p.go:254`). StartServer
  recovers the panic and leaves `globalApp` and `globalSwapTUN` set; a later StopServer runs
  the same Close and is not recovered.
- When the descriptor cannot be wrapped the application is dropped without Close and its
  config writer stays (`cmd/gomobile-lib/main.go:92`).
- `globalSwapTUN` survives a recovered panic; a later start without a VPN keeps it
  (`cmd/gomobile-lib/main.go:149`); `DevicesOwned` has it as an exception.
- A descriptor handed to StartServer while the config disables the VPN is wrapped and never
  used: Close does not close it, and StopServer drops the wrapper with the device open
  (`cmd/gomobile-lib/main.go:149`) and its event forwarder waiting.
- Any error of the TUN but a closed device or too many segments ends ReadTUNPackets for good
  (`vpn/vpn.go:223`): a later UpdateTunDevice succeeds, and nobody reads the new device.
- Close waits one second for the API handlers (`application.go:315`) and goes on while those
  that need longer still run.
- RemovePeer takes the protection of a peer away (`api/peers.go:333`), but a round of
  `connectToKnownPeers` that still has the peer on its list protects it again
  (`p2p/p2p.go:449`; `leaked` in P2PHost). The other way round, a peer that is added again
  before the removal's UnprotectPeer runs loses its protection until the next round (`lost`).
  The relay source reads `p.host` without synchronisation (`:534`).
- After a failed local authentication `SendServerFailureReply` waits for a second greeting
  without a deadline (`service/socks5.go:189`), and the client, which has greeted already, is not
  answered ("unheard" in Proxy); the session ends when it leaves.
- An error of Accept other than the end of the listener ends the accept loop and leaves the
  listener open (`socks5/client.go:99-121`): clients connect and wait.
- The copies of a session have no deadline (`service/socks5.go:261`): after the client left, a target
  that neither sends nor ends keeps the session on both nodes while the link holds.
- Events are emitted with the config lock held (`config/config.go:336`): a subscriber's queue that
  is full would make the sender wait for a callback that may wait for the same lock.
- The address written as source of a batch is read before the batch is collected
  (`service/tunnel.go:583`), and the connectivity flag is swapped after the gateway peer was
  read (`:718`); both heal with the next batch or event.

## 7. Not modelled

- libp2p, the DNS library, the gVisor netstack and the event bus are external; the models
  have only what the code sees of them. The queues of the event bus are not modelled.
- Wire formats, invite links, API types and validation, the CLI, tray, metrics, updates and
  release tools: no state of their own that a property could be about.
- In the data path: packet bytes and length tests, the opening of streams with their quotas
  and idle timers, several senders of one peer, and the connectivity event.
- The gateway of a node without a VPN interface: with no tunnel EnableClient is refused
  (`service/vpn_gateway.go:172`), and DisableClient and SetServerEnabled write the config
  themselves (`:196`, `:219`, `:230`).
- In the P2P host: relay candidates, dial ranking and statistics.
- The DNS netstack bridge of Android: a packet pump around an external TCP/IP stack.
- The log ring buffer: a sequential byte buffer under one lock.
- Netstate on Android and on other systems: flags over the host's VpnService, or errors.

## 8. Running

`tlc -workers 2 -config <Run>.cfg <Module>` with the module of `runs` in `PROJECT.json`;
`tlapm <Module>Proofs.tla` for the proofs. From nothing, the largest
(PacketFlowProofs, AuthStatusProofs, VPNGatewayProofs) take from three to twenty minutes
each, depending on the machine, the others a few minutes or less.
